---------------------------- MODULE Spec2Model ----------------------------
(***************************************************************************)
(* Verification model of the ChainUp custody SDK (rust-sdk): the provider  *)
(* of segmented raw RSA (src/crypto.rs), the sign canonicalizer            *)
(* (src/mpc/sign_util.rs) and the request pipeline (src/mpc/api/base_api.rs*)
(* and src/waas/api/base_api.rs).                                          *)
(*                                                                         *)
(* Scale.  TLC's integers have 32 bits, so the RSA arithmetic runs on real *)
(* key pairs (n = p*q, e*d = 1 mod lcm(p-1,q-1)) whose modulus has 12 or   *)
(* 13 "bytes" of 2 bits each: a byte is a digit 0..ByteBase-1, with        *)
(* 0x00 = 0, 0x01 = 1, 0x02 = 2 and 0xFF = ByteBase-1 (the largest byte,   *)
(* which like 0xFF never occurs in UTF-8 text).  All lengths (the 11 bytes *)
(* of padding overhead, key_size, block sizes) are those of the code.      *)
(***************************************************************************)
EXTENDS Integers, Sequences, FiniteSets, TLC

\* ------------------------------------------------------------------------
\* Bounds of the model
\* ------------------------------------------------------------------------
MaxLen == 4

\* ------------------------------------------------------------------------
\* Results (Result<T>): Ok(v) or Err(kind)
\* ------------------------------------------------------------------------
Ok(v) == [ok |-> TRUE, val |-> v, err |-> "none"]

Err(kind) == [ok |-> FALSE, val |-> <<>>, err |-> kind]

\* ------------------------------------------------------------------------
\* Bytes and big integers
\* ------------------------------------------------------------------------
ByteBase == 4

Byte == 0 .. (ByteBase - 1)

FF == ByteBase - 1

RECURSIVE Repeat(_, _)
Repeat(b, count) == IF count <= 0 THEN <<>> ELSE <<b>> \o Repeat(b, count - 1)

RECURSIVE Concat(_)
Concat(chunks) == IF chunks = <<>> THEN <<>> ELSE Head(chunks) \o Concat(Tail(chunks))

\* BigUint::from_bytes_be
RECURSIVE from_bytes_be(_)
from_bytes_be(bytes) ==
    IF bytes = <<>> THEN 0
    ELSE from_bytes_be(SubSeq(bytes, 1, Len(bytes) - 1)) * ByteBase + bytes[Len(bytes)]

\* BigUint::to_bytes_be: no leading zero byte, and [0] for zero
RECURSIVE Digits(_)
Digits(x) == IF x = 0 THEN <<>> ELSE Digits(x \div ByteBase) \o <<x % ByteBase>>

to_bytes_be(x) == IF x = 0 THEN <<0>> ELSE Digits(x)

\* a * b mod n without leaving 32 bits (a, b < n < 2^26)
RECURSIVE MulMod(_, _, _)
MulMod(a, b, n) ==
    IF a = 0 THEN 0
    ELSE (MulMod(a \div 16, b, n) * 16 + (a % 16) * b) % n

\* BigUint::modpow
RECURSIVE modpow(_, _, _)
modpow(base, exp, n) ==
    IF exp = 0 THEN 1 % n
    ELSE LET half == modpow(base, exp \div 2, n)
             sq   == MulMod(half, half, n)
         IN IF exp % 2 = 1 THEN MulMod(sq, base % n, n) ELSE sq

\* ------------------------------------------------------------------------
\* Keys and providers
\* ------------------------------------------------------------------------
\* RsaPrivateKey / RsaPublicKey: modulus n, public exponent e, private d
KeyA == [n |-> 17866853, e |-> 17, d |-> 3939353]

KeyB == [n |-> 4658977, e |-> 3, d |-> 775777]

KeyC == [n |-> 49574897, e |-> 5, d |-> 2478041]

NoKey == [n |-> 0, e |-> 0, d |-> 0]

IsSome(key) == key.n # 0

\* PublicKeyParts::size: the modulus' length in bytes
size(key) == Len(Digits(key.n))

\* RsaCryptoProvider { private_key, public_key, sign_private_key }
Provider(priv, pub, sgn) ==
    [private_key |-> priv, public_key |-> pub, sign_private_key |-> sgn]

Providers ==
    { Provider(KeyA, KeyA, NoKey),
      Provider(KeyB, KeyB, NoKey),
      Provider(KeyC, KeyC, KeyC),
      Provider(KeyA, KeyA, KeyC),
      Provider(KeyA, KeyC, NoKey),
      Provider(KeyA, NoKey, NoKey),
      Provider(NoKey, KeyA, KeyA),
      Provider(NoKey, KeyA, NoKey) }

\* the provider holds a private key and the public key of the same pair
Matched(p) ==
    /\ IsSome(p.private_key)
    /\ IsSome(p.public_key)
    /\ p.private_key = p.public_key

\* ------------------------------------------------------------------------
\* Text: a string is the sequence of its UTF-8 bytes
\* ------------------------------------------------------------------------
\* String::from_utf8: the largest byte never occurs in UTF-8
IsUtf8(bytes) == \A i \in 1 .. Len(bytes) : bytes[i] # FF

TextByte == 0 .. (ByteBase - 2)

Strings == UNION {[1 .. len -> TextByte] : len \in 0 .. MaxLen}

\* ------------------------------------------------------------------------
\* Base64 (crate base64).  A character is a number: 0..61 the alphanumerics
\* shared by both alphabets, 62 and 63 the URL-safe '-' and '_', 64 and 65
\* the standard '+' and '/', 66 the padding '=', 67 any other character.
\* ------------------------------------------------------------------------
PadChar == 66

BadChar == 67

UrlSafeChar(sextet) == sextet

StandardChar(sextet) == IF sextet >= 62 THEN sextet + 2 ELSE sextet

\* the sextet a character stands for, or -1
UrlSafeIndex(c) == IF c \in 0 .. 63 THEN c ELSE -1

StandardIndex(c) == IF c \in 0 .. 61 THEN c ELSE IF c \in 64 .. 65 THEN c - 2 ELSE -1

RECURSIVE EncodeSextets(_)
EncodeSextets(bytes) ==
    IF Len(bytes) = 0 THEN <<>>
    ELSE IF Len(bytes) = 1
         THEN <<bytes[1] \div 4, (bytes[1] % 4) * 16>>
    ELSE IF Len(bytes) = 2
         THEN <<bytes[1] \div 4, (bytes[1] % 4) * 16 + bytes[2] \div 16,
                (bytes[2] % 16) * 4>>
    ELSE <<bytes[1] \div 4, (bytes[1] % 4) * 16 + bytes[2] \div 16,
           (bytes[2] % 16) * 4 + bytes[3] \div 64, bytes[3] % 64>>
         \o EncodeSextets(SubSeq(bytes, 4, Len(bytes)))

\* the bytes of a sequence of sextets; Err on a length of 1 mod 4 or on
\* non-zero trailing bits
RECURSIVE DecodeSextets(_)
DecodeSextets(sx) ==
    IF Len(sx) = 0 THEN Ok(<<>>)
    ELSE IF Len(sx) = 1 THEN Err("Base64")
    ELSE IF Len(sx) = 2
         THEN IF sx[2] % 16 # 0 THEN Err("Base64")
              ELSE Ok(<<sx[1] * 4 + sx[2] \div 16>>)
    ELSE IF Len(sx) = 3
         THEN IF sx[3] % 4 # 0 THEN Err("Base64")
              ELSE Ok(<<sx[1] * 4 + sx[2] \div 16, (sx[2] % 16) * 16 + sx[3] \div 4>>)
    ELSE LET rest == DecodeSextets(SubSeq(sx, 5, Len(sx)))
         IN IF ~rest.ok THEN rest
            ELSE Ok(<<sx[1] * 4 + sx[2] \div 16, (sx[2] % 16) * 16 + sx[3] \div 4,
                      (sx[3] % 4) * 64 + sx[4]>> \o rest.val)

\* the number of trailing '=' of a text
RECURSIVE TrailingPads(_)
TrailingPads(text) ==
    IF text # <<>> /\ text[Len(text)] = PadChar
    THEN 1 + TrailingPads(SubSeq(text, 1, Len(text) - 1))
    ELSE 0

\* canonical padding: the padded length is a multiple of 4 and the pads
\* fill the last quantum
CanonicalPadding(text) ==
    LET pads == TrailingPads(text)
        body == Len(text) - pads
    IN /\ Len(text) % 4 = 0
       /\ pads = (IF body % 4 = 0 THEN 0 ELSE 4 - (body % 4))
       /\ pads <= 2

\* URL_SAFE_NO_PAD.encode
UrlSafeNoPadEncode(bytes) ==
    LET sx == EncodeSextets(bytes)
    IN [i \in 1 .. Len(sx) |-> UrlSafeChar(sx[i])]

\* URL_SAFE_NO_PAD.decode: no padding accepted
UrlSafeNoPadDecode(text) ==
    IF \E i \in 1 .. Len(text) : UrlSafeIndex(text[i]) < 0 THEN Err("Base64")
    ELSE DecodeSextets([i \in 1 .. Len(text) |-> UrlSafeIndex(text[i])])

\* URL_SAFE.decode: canonical padding required
UrlSafeDecode(text) ==
    LET body == SubSeq(text, 1, Len(text) - TrailingPads(text))
    IN IF ~CanonicalPadding(text) THEN Err("Base64")
       ELSE IF \E i \in 1 .. Len(body) : UrlSafeIndex(body[i]) < 0 THEN Err("Base64")
       ELSE DecodeSextets([i \in 1 .. Len(body) |-> UrlSafeIndex(body[i])])

\* STANDARD.encode: padded to a multiple of 4
StandardEncode(bytes) ==
    LET sx == EncodeSextets(bytes)
    IN [i \in 1 .. Len(sx) |-> StandardChar(sx[i])]
       \o Repeat(PadChar, (4 - (Len(sx) % 4)) % 4)

\* STANDARD.decode: canonical padding required
StandardDecode(text) ==
    LET body == SubSeq(text, 1, Len(text) - TrailingPads(text))
    IN IF ~CanonicalPadding(text) THEN Err("Base64")
       ELSE IF \E i \in 1 .. Len(body) : StandardIndex(body[i]) < 0 THEN Err("Base64")
       ELSE DecodeSextets([i \in 1 .. Len(body) |-> StandardIndex(body[i])])

\* ------------------------------------------------------------------------
\* RsaCryptoProvider: segmented raw RSA
\* ------------------------------------------------------------------------
\* the 11 bytes of PKCS#1 v1.5 overhead (key_size - 11)
PadOverhead == 11

Min(a, b) == IF a < b THEN a ELSE b

\* the encrypt iteration without the left-pad of the block to key_size
EncryptBlockNoLeftPad(chunk, key) ==
    LET key_size    == size(key)
        padding_len == key_size - Len(chunk) - 3
        padded      == <<0, 1>> \o Repeat(FF, padding_len) \o <<0>> \o chunk
    IN to_bytes_be(modpow(from_bytes_be(padded), key.d, key.n))

\* the encrypt iteration with the block type of public-key encryption
EncryptBlockType2(chunk, key) ==
    LET key_size    == size(key)
        padding_len == key_size - Len(chunk) - 3
        padded      == <<0, 2>> \o Repeat(FF, padding_len) \o <<0>> \o chunk
        encrypted_bytes ==
            to_bytes_be(modpow(from_bytes_be(padded), key.d, key.n))
    IN Repeat(0, key_size - Len(encrypted_bytes)) \o encrypted_bytes

\* one iteration of the encrypt loop: pad the chunk, m^d mod n, left-pad
EncryptBlock(chunk, key) ==
    LET key_size    == size(key)
        padding_len == key_size - Len(chunk) - 3
        padded      == <<0, 1>> \o Repeat(FF, padding_len) \o <<0>> \o chunk
        encrypted_bytes ==
            to_bytes_be(modpow(from_bytes_be(padded), key.d, key.n))
    IN Repeat(0, key_size - Len(encrypted_bytes)) \o encrypted_bytes

\* the encrypt loop with blocks of key_size - 10 bytes
RECURSIVE EncryptLoopWideBlock(_, _, _)
EncryptLoopWideBlock(data, offset, key) ==
    IF offset >= Len(data) THEN <<>>
    ELSE LET max_block  == size(key) - PadOverhead + 1
             block_size == Min(max_block, Len(data) - offset)
             chunk      == SubSeq(data, offset + 1, offset + block_size)
         IN <<EncryptBlock(chunk, key)>>
            \o EncryptLoopWideBlock(data, offset + block_size, key)

\* the encrypt loop from `offset`: the blocks, in chunk order
RECURSIVE EncryptLoop(_, _, _)
EncryptLoop(data, offset, key) ==
    IF offset >= Len(data) THEN <<>>
    ELSE LET max_block  == size(key) - PadOverhead
             block_size == Min(max_block, Len(data) - offset)
             chunk      == SubSeq(data, offset + 1, offset + block_size)
         IN <<EncryptBlock(chunk, key)>>
            \o EncryptLoop(data, offset + block_size, key)

raw_encrypt_with_private_key(p, data) ==
    IF ~IsSome(p.private_key) THEN Err("Crypto")
    ELSE Ok(Concat(EncryptLoop(data, 0, p.private_key)))

\* skip_while(|b| b == 0)
RECURSIVE SkipZeros(_)
SkipZeros(bytes) ==
    IF bytes # <<>> /\ Head(bytes) = 0 THEN SkipZeros(Tail(bytes)) ELSE bytes

\* the index of the first 0x00 at or after `from`, or 0 when there is none
RECURSIVE FindZero(_, _)
FindZero(bytes, from) ==
    IF from > Len(bytes) THEN 0
    ELSE IF bytes[from] = 0 THEN from
    ELSE FindZero(bytes, from + 1)

\* one iteration of the decrypt loop: c^e mod n, left-pad, strip padding
DecryptBlock(chunk, key) ==
    LET key_size        == size(key)
        decrypted_bytes == to_bytes_be(modpow(from_bytes_be(chunk), key.e, key.n))
        padded_decrypted ==
            Repeat(0, key_size - Len(decrypted_bytes)) \o decrypted_bytes
        separator_idx ==
            IF padded_decrypted[2] = 1 \/ padded_decrypted[2] = 2
            THEN FindZero(padded_decrypted, 3)
            ELSE 0
    IN IF Len(padded_decrypted) >= PadOverhead
       THEN IF separator_idx # 0
            THEN SubSeq(padded_decrypted, separator_idx + 1, Len(padded_decrypted))
            ELSE SkipZeros(padded_decrypted)
       ELSE SkipZeros(padded_decrypted)

RECURSIVE DecryptLoop(_, _, _)
DecryptLoop(encrypted_data, offset, key) ==
    IF offset >= Len(encrypted_data) THEN <<>>
    ELSE LET block_size == Min(size(key), Len(encrypted_data) - offset)
             chunk == SubSeq(encrypted_data, offset + 1, offset + block_size)
         IN <<DecryptBlock(chunk, key)>>
            \o DecryptLoop(encrypted_data, offset + block_size, key)

raw_decrypt_with_public_key(p, encrypted_data) ==
    IF ~IsSome(p.public_key) THEN Err("Crypto")
    ELSE Ok(Concat(DecryptLoop(encrypted_data, 0, p.public_key)))

\* CryptoProvider::encrypt_with_private_key
encrypt_with_private_key(p, data) ==
    LET encrypted == raw_encrypt_with_private_key(p, data)
    IN IF ~encrypted.ok THEN encrypted
       ELSE Ok(UrlSafeNoPadEncode(encrypted.val))

\* decrypt_with_public_key without the second decoding attempt
decrypt_with_public_key_no_retry(p, encrypted_data) ==
    LET encrypted_bytes == UrlSafeNoPadDecode(encrypted_data)
    IN IF ~encrypted_bytes.ok THEN Err("Crypto")
       ELSE LET decrypted == raw_decrypt_with_public_key(p, encrypted_bytes.val)
            IN IF ~decrypted.ok THEN decrypted
               ELSE IF ~IsUtf8(decrypted.val) THEN Err("Crypto")
               ELSE Ok(decrypted.val)

\* CryptoProvider::decrypt_with_public_key
decrypt_with_public_key(p, encrypted_data) ==
    LET padding     == 4 - (Len(encrypted_data) % 4)
        padded_data == IF padding < 4
                       THEN encrypted_data \o Repeat(PadChar, padding)
                       ELSE encrypted_data
        no_pad      == UrlSafeNoPadDecode(encrypted_data)
        encrypted_bytes == IF no_pad.ok THEN no_pad ELSE UrlSafeDecode(padded_data)
    IN IF ~encrypted_bytes.ok THEN Err("Crypto")
       ELSE LET decrypted == raw_decrypt_with_public_key(p, encrypted_bytes.val)
            IN IF ~decrypted.ok THEN decrypted
               ELSE IF ~IsUtf8(decrypted.val) THEN Err("Crypto")
               ELSE Ok(decrypted.val)

\* ------------------------------------------------------------------------
\* RsaCryptoProvider: sign and verify
\* ------------------------------------------------------------------------
\* The digests are stand-ins of the scale of the keys: a deterministic
\* mixing function of the bytes, rendered as a 2-character hex text (Md5)
\* or as a 1-byte digest (Sha256); the DigestInfo prefix has 1 byte.
RECURSIVE Mix(_, _)
Mix(bytes, acc) ==
    IF bytes = <<>> THEN acc
    ELSE Mix(Tail(bytes), (acc * 5 + Head(bytes) + 1) % 64)

\* format!("{:x}", Md5::digest(data)): the digest as lower-case hex text
Md5Hex(bytes) == LET h == Mix(bytes, 7) IN <<h % 3, (h \div 3) % 3>>

\* Sha256::digest
Sha256(bytes) == <<Mix(bytes, 11) % ByteBase>>

\* the ASN.1 DigestInfo prefix of SHA-256
sha256_prefix == <<2>>

\* rsa: pkcs1v15_sign_pad.  EM = 0x00 0x01 PS 0x00 prefix hashed
pkcs1v15_sign_pad(prefix, hashed, k) ==
    LET t_len == Len(prefix) + Len(hashed)
    IN IF k < t_len + PadOverhead THEN Err("MessageTooLong")
       ELSE Ok(<<0, 1>> \o Repeat(FF, k - t_len - 3) \o <<0>> \o prefix \o hashed)

\* rsa: RsaPrivateKey::sign(Pkcs1v15Sign::new_unprefixed(), digest_in)
Pkcs1v15SignUnprefixed(key, digest_in) ==
    LET em == pkcs1v15_sign_pad(<<>>, digest_in, size(key))
    IN IF ~em.ok THEN em
       ELSE LET sig == to_bytes_be(modpow(from_bytes_be(em.val), key.d, key.n))
            IN Ok(Repeat(0, size(key) - Len(sig)) \o sig)

\* rsa: pkcs1v15_sign_unpad
pkcs1v15_sign_unpad(prefix, hashed, em, k) ==
    LET hash_len == Len(hashed)
        t_len    == Len(prefix) + Len(hashed)
    IN IF k < t_len + PadOverhead THEN FALSE
       ELSE /\ em[1] = 0
            /\ em[2] = 1
            /\ SubSeq(em, k - hash_len + 1, k) = hashed
            /\ SubSeq(em, k - t_len + 1, k - hash_len) = prefix
            /\ em[k - t_len] = 0
            /\ \A i \in 3 .. (k - t_len - 1) : em[i] = FF

\* rsa: VerifyingKey::<Sha256>::new_unprefixed(key).verify(msg, sig).is_ok()
VerifyingKeyUnprefixedVerify(key, msg, signature_bytes) ==
    LET k == size(key)
        c == from_bytes_be(signature_bytes)
    IN IF Len(signature_bytes) # k \/ c >= key.n THEN FALSE
       ELSE LET m  == to_bytes_be(modpow(c, key.e, key.n))
                em == Repeat(0, k - Len(m)) \o m
            IN pkcs1v15_sign_unpad(<<>>, Sha256(msg), em, k)

\* the key choice with the main private key taken first
SigningKeyMainFirst(p) ==
    IF IsSome(p.private_key) THEN p.private_key ELSE p.sign_private_key

\* sign_private_key.or(private_key)
SigningKey(p) ==
    IF IsSome(p.sign_private_key) THEN p.sign_private_key ELSE p.private_key

\* CryptoProvider::sign
sign(p, data) ==
    LET signing_key == SigningKey(p)
        md5_hash    == Md5Hex(data)
        hash        == Sha256(md5_hash)
        digest_info == sha256_prefix \o hash
    IN IF ~IsSome(signing_key) THEN Err("Crypto")
       ELSE LET signature == Pkcs1v15SignUnprefixed(signing_key, digest_info)
            IN IF ~signature.ok THEN Err("Crypto")
               ELSE Ok(StandardEncode(signature.val))

\* verify with the verification failure propagated as an error
verify_propagating(p, data, signature) ==
    LET signature_bytes == StandardDecode(signature)
    IN IF ~IsSome(p.public_key) THEN Err("Crypto")
       ELSE IF ~signature_bytes.ok THEN Err("Crypto")
       ELSE IF ~VerifyingKeyUnprefixedVerify(p.public_key, data, signature_bytes.val)
            THEN Err("Crypto")
       ELSE Ok(TRUE)

\* CryptoProvider::verify
verify(p, data, signature) ==
    LET signature_bytes == StandardDecode(signature)
    IN IF ~IsSome(p.public_key) THEN Err("Crypto")
       ELSE IF ~signature_bytes.ok THEN Err("Crypto")
       ELSE Ok(VerifyingKeyUnprefixedVerify(p.public_key, data, signature_bytes.val))

\* ------------------------------------------------------------------------
\* JSON values and texts of the pipeline
\* ------------------------------------------------------------------------
\* The pipeline is written against the trait CryptoProvider and serde_json;
\* at this level a text is described by what it is: JSON text of a value,
\* other text, or ciphertext made with a key from a plaintext text.  The
\* round trip that lets the ciphertext be opened with the matching public
\* key is C1; it is computed on bytes in the provider section above.
JsonText(value) == [kind |-> "json", key |-> 0, plain |-> value]

PlainText(value) == [kind |-> "plain", key |-> 0, plain |-> value]

CipherText(key, plaintext) == [kind |-> "cipher", key |-> key.n, plain |-> plaintext]

GarbageText(plaintext) == [kind |-> "garbage", key |-> 0, plain |-> plaintext]

\* serde_json::to_string
to_string(value) == JsonText(value)

\* serde_json::from_str; a serde_json::Error becomes ChainUpError::Validation
from_str(text) == IF text.kind = "json" THEN Ok(text.plain) ELSE Err("Validation")

\* encrypt_with_private_key, as the pipeline sees it, when the provider
\* encrypts with whatever its private key slot holds
provider_encrypt_unchecked(p, text) ==
    Ok(CipherText(p.private_key, text))

\* dyn CryptoProvider::encrypt_with_private_key, as the pipeline sees it
provider_encrypt(p, text) ==
    IF ~IsSome(p.private_key) THEN Err("Crypto")
    ELSE Ok(CipherText(p.private_key, text))

\* dyn CryptoProvider::decrypt_with_public_key, as the pipeline sees it
provider_decrypt(p, text) ==
    IF ~IsSome(p.public_key) THEN Err("Crypto")
    ELSE IF text.kind = "cipher" /\ text.key = p.public_key.n THEN Ok(text.plain)
    ELSE Err("Crypto")

\* Value::String / Value::Number of a request body
JStr(s) == [t |-> "str", s |-> s, n |-> 0]

JNum(n) == [t |-> "num", s |-> <<>>, n |-> n]

\* ASCII codes
Ch0 == 48

Ch9 == 57

ChPlus == 43

ChMinus == 45

ChEq == 61

ChAmp == 38

ChUpperA == 65

ChUpperZ == 90

ChLowerA == 97

MaxI32 == 2147483647

\* the digits of a decimal text as a number, or -1 when a character is no
\* digit or the number leaves i32 (the magnitude MaxI32 + 1 of i32::MIN is
\* not reached by the texts of the model)
RECURSIVE ParseDigits(_, _)
ParseDigits(chars, acc) ==
    IF chars = <<>> THEN acc
    ELSE LET c == Head(chars)
         IN IF c < Ch0 \/ c > Ch9 THEN -1
            ELSE IF acc > (MaxI32 - (c - Ch0)) \div 10 THEN -1
            ELSE ParseDigits(Tail(chars), acc * 10 + (c - Ch0))

\* str::parse::<i32>: an optional sign, then at least one digit
parse_i32(chars) ==
    LET signed == chars # <<>> /\ Head(chars) \in {ChPlus, ChMinus}
        digits == IF signed THEN Tail(chars) ELSE chars
        mag    == IF digits = <<>> THEN -1 ELSE ParseDigits(digits, 0)
    IN IF mag < 0 THEN Err("ParseInt")
       ELSE Ok(IF signed /\ Head(chars) = ChMinus THEN 0 - mag ELSE mag)

\* The `code` of a response: absent, null, a JSON number or a JSON string.
\* An integer number is an i64 held as its two 32-bit halves: hi the upper
\* half, lo the lower half read as an i32, so `as i32` is exactly lo.  A
\* number that is no i64 (a float) has as_i64() = None.
CodeAbsent == [t |-> "absent", hi |-> 0, lo |-> 0, s |-> <<>>]

CodeNull == [t |-> "null", hi |-> 0, lo |-> 0, s |-> <<>>]

CodeFloat == [t |-> "float", hi |-> 0, lo |-> 0, s |-> <<>>]

CodeNum(hi, lo) == [t |-> "num", hi |-> hi, lo |-> lo, s |-> <<>>]

CodeStr(chars) == [t |-> "str", hi |-> 0, lo |-> 0, s |-> chars]

\* the `msg` of a response
MsgAbsent == [t |-> "absent", s |-> ""]

MsgNull == [t |-> "null", s |-> ""]

MsgStr(m) == [t |-> "str", s |-> m]

\* MpcBaseApi::validate_response, the code: as_str().and_then(parse)
\* .or_else(as_i64() as i32).unwrap_or(-1)
mpc_code(code) ==
    IF code.t = "str" /\ parse_i32(code.s).ok THEN parse_i32(code.s).val
    ELSE IF code.t = "num" THEN code.lo
    ELSE -1

\* BaseApi::validate_response, the code: match on Number / String
waas_code(code) ==
    IF code.t = "num" THEN code.lo
    ELSE IF code.t = "float" THEN -1
    ELSE IF code.t = "str"
         THEN (IF parse_i32(code.s).ok THEN parse_i32(code.s).val ELSE -1)
    ELSE -1

\* response.get("msg").and_then(as_str).unwrap_or("Unknown error")
message_of(msg) == IF msg.t = "str" THEN msg.s ELSE "Unknown error"

\* Err(ApiError::new(code, message))
ApiError(code, message) ==
    [ok |-> FALSE, val |-> [code |-> code, message |-> message], err |-> "Api"]

\* serde_json::from_value::<T>: T is given by the JSON shapes it accepts
from_value(T, value) == IF value.t \in T THEN Ok(value) ELSE Err("Validation")

JNull == [t |-> "null", s |-> GarbageText("none")]

JArrayEmpty == [t |-> "arr", s |-> GarbageText("none")]

\* the caller's types: serde_json::Value, a struct, a Vec
TValue == {"null", "str", "obj", "arr"}

TStruct == {"obj"}

TVec == {"arr"}

\* ------------------------------------------------------------------------
\* Request pipeline: MpcBaseApi and BaseApi (WaaS)
\* ------------------------------------------------------------------------
\* "utf-8", the charset literal of MpcBaseApi
Utf8Lower == <<117, 116, 102, 45, 56>>

\* "UTF-8", the default of WaasConfig::charset
Utf8Upper == <<85, 84, 70, 45, 56>>

\* "GBK", a charset set in the pub field WaasConfig::charset
Gbk == <<71, 66, 75>>

\* the two fields inserted only where the caller's map has none
InsertCommonKeepingCaller(data, time_ms, charset) ==
    [k \in DOMAIN data \cup {"time", "charset"} |->
        IF k \in DOMAIN data THEN data[k]
        ELSE IF k = "time" THEN JNum(time_ms)
        ELSE JStr(charset)]

\* HashMap::insert of the two injected fields into a clone of the caller's map
InsertCommon(data, time_ms, charset) ==
    [k \in DOMAIN data \cup {"time", "charset"} |->
        IF k = "time" THEN JNum(time_ms)
        ELSE IF k = "charset" THEN JStr(charset)
        ELSE data[k]]

\* MpcBaseApi::build_request_args_json
mpc_build_request_args_json(api, data, now) ==
    to_string(InsertCommon(data, now, Utf8Lower))

\* BaseApi::build_request_args_json
waas_build_request_args_json(api, data, now) ==
    to_string(InsertCommon(data, now, api.charset))

\* HttpClient::post / HttpClient::get: the body of a 2xx response, or a
\* NetworkError (send failed, body unreadable, status not 2xx)
http_send(net) == IF net.fail THEN Err("Network") ELSE Ok(net.body)

\* what one execute_request call did: the serialized body, the HTTP
\* requests sent, the texts handed to decrypt, and what it returned
Outcome(raw_json, sent, decrypt_calls, result) ==
    [raw_json |-> raw_json, sent |-> sent, decrypt_calls |-> decrypt_calls,
     result |-> result]

\* the request of step 3 with the charset sent next to app_id and data
WireRequestWithCharset(api, method, path, encrypted_data) ==
    [method |-> IF method = "GET" THEN "GET" ELSE "POST",
     path   |-> path,
     form   |-> [app_id |-> api.app_id, data |-> encrypted_data,
                 charset |-> api.charset]]

\* the request of step 3: only app_id and data
WireRequest(api, method, path, encrypted_data) ==
    [method |-> IF method = "GET" THEN "GET" ELSE "POST",
     path   |-> path,
     form   |-> [app_id |-> api.app_id, data |-> encrypted_data]]

\* step 4 with a failed decryption propagated as the call's error
decrypt_response_propagating(api, raw_json, request, response) ==
    IF response.data.t = "str"
    THEN LET decrypted == provider_decrypt(api.crypto_provider, response.data.s)
         IN IF decrypted.ok
            THEN LET decrypted_response == from_str(decrypted.val)
                 IN IF ~decrypted_response.ok
                    THEN Outcome(raw_json, <<request>>, <<response.data.s>>,
                                 Err("Validation"))
                    ELSE Outcome(raw_json, <<request>>, <<response.data.s>>,
                                 Ok(decrypted_response.val))
            ELSE Outcome(raw_json, <<request>>, <<response.data.s>>, Err("Crypto"))
    ELSE Outcome(raw_json, <<request>>, <<>>, Ok(response))

\* step 4 with a plaintext that is no JSON answered by the raw response
decrypt_response_lenient(api, raw_json, request, response) ==
    IF response.data.t = "str"
    THEN LET decrypted == provider_decrypt(api.crypto_provider, response.data.s)
         IN IF decrypted.ok /\ from_str(decrypted.val).ok
            THEN Outcome(raw_json, <<request>>, <<response.data.s>>,
                         Ok(from_str(decrypted.val).val))
            ELSE Outcome(raw_json, <<request>>, <<response.data.s>>, Ok(response))
    ELSE Outcome(raw_json, <<request>>, <<>>, Ok(response))

\* step 4 of MpcBaseApi::execute_request
mpc_decrypt_response(api, raw_json, request, response) ==
    IF response.data.t = "str"
    THEN LET decrypted == provider_decrypt(api.crypto_provider, response.data.s)
         IN IF decrypted.ok
            THEN LET decrypted_response == from_str(decrypted.val)
                 IN IF ~decrypted_response.ok
                    THEN Outcome(raw_json, <<request>>, <<response.data.s>>,
                                 Err("Validation"))
                    ELSE Outcome(raw_json, <<request>>, <<response.data.s>>,
                                 Ok(decrypted_response.val))
            ELSE Outcome(raw_json, <<request>>, <<response.data.s>>, Ok(response))
    ELSE Outcome(raw_json, <<request>>, <<>>, Ok(response))

\* step 4 of BaseApi::execute_request
waas_decrypt_response(api, raw_json, request, response) ==
    IF response.data.t = "str"
    THEN LET decrypted == provider_decrypt(api.crypto_provider, response.data.s)
         IN IF decrypted.ok
            THEN LET decrypted_data == from_str(decrypted.val)
                 IN IF decrypted_data.ok
                    THEN Outcome(raw_json, <<request>>, <<response.data.s>>,
                                 Ok(decrypted_data.val))
                    ELSE Outcome(raw_json, <<request>>, <<response.data.s>>,
                                 Ok(response))
            ELSE Outcome(raw_json, <<request>>, <<response.data.s>>, Ok(response))
    ELSE Outcome(raw_json, <<request>>, <<>>, Ok(response))

\* MpcBaseApi::execute_request
mpc_execute_request(api, method, path, data, now, net) ==
    LET raw_json       == mpc_build_request_args_json(api, data, now)
        encrypted_data == provider_encrypt(api.crypto_provider, raw_json)
        request        == WireRequest(api, method, path, encrypted_data.val)
        response_body  == http_send(net)
        response       == from_str(response_body.val)
    IN IF ~encrypted_data.ok THEN Outcome(raw_json, <<>>, <<>>, Err("Crypto"))
       ELSE IF ~response_body.ok
            THEN Outcome(raw_json, <<request>>, <<>>, Err("Network"))
       ELSE IF ~response.ok
            THEN Outcome(raw_json, <<request>>, <<>>, Err("Validation"))
       ELSE mpc_decrypt_response(api, raw_json, request, response.val)

\* BaseApi::execute_request
waas_execute_request(api, method, path, data, now, net) ==
    LET raw_json       == waas_build_request_args_json(api, data, now)
        encrypted_data == provider_encrypt(api.crypto_provider, raw_json)
        request        == WireRequest(api, method, path, encrypted_data.val)
        response_body  == http_send(net)
        response       == from_str(response_body.val)
    IN IF ~encrypted_data.ok THEN Outcome(raw_json, <<>>, <<>>, Err("Crypto"))
       ELSE IF ~response_body.ok
            THEN Outcome(raw_json, <<request>>, <<>>, Err("Network"))
       ELSE IF ~response.ok
            THEN Outcome(raw_json, <<request>>, <<>>, Err("Validation"))
       ELSE waas_decrypt_response(api, raw_json, request, response.val)

\* what one validate_response call did: the code it read, the texts it
\* handed to decrypt, and what it returned
Validated(code, decrypt_calls, result) ==
    [code |-> code, decrypt_calls |-> decrypt_calls, result |-> result]

\* MpcBaseApi::validate_response::<T>
mpc_validate_response(api, T, response) ==
    LET code == mpc_code(response.code)
    IN IF code # 0
       THEN Validated(code, <<>>, ApiError(code, message_of(response.msg)))
       ELSE IF response.data.t = "str"
            THEN LET decrypted == provider_decrypt(api.crypto_provider, response.data.s)
                     parsed    == from_str(decrypted.val)
                 IN IF ~decrypted.ok
                    THEN Validated(code, <<response.data.s>>, Err("Crypto"))
                    ELSE IF ~parsed.ok
                         THEN Validated(code, <<response.data.s>>, Err("Validation"))
                    ELSE Validated(code, <<response.data.s>>, from_value(T, parsed.val))
       ELSE IF response.data.t # "absent"
            THEN Validated(code, <<>>, from_value(T, response.data))
       ELSE Validated(code, <<>>, from_value(T, JNull))

\* MpcBaseApi::validate_response_raw
mpc_validate_response_raw(api, T, response) ==
    LET code == mpc_code(response.code)
    IN IF code # 0
       THEN Validated(code, <<>>, ApiError(code, message_of(response.msg)))
       ELSE IF response.data.t = "str"
            THEN LET decrypted == provider_decrypt(api.crypto_provider, response.data.s)
                     parsed    == from_str(decrypted.val)
                 IN IF ~decrypted.ok
                    THEN Validated(code, <<response.data.s>>, Err("Crypto"))
                    ELSE IF ~parsed.ok
                         THEN Validated(code, <<response.data.s>>, Err("Validation"))
                    ELSE Validated(code, <<response.data.s>>, Ok(parsed.val))
       ELSE IF response.data.t # "absent"
            THEN Validated(code, <<>>, Ok(response.data))
       ELSE Validated(code, <<>>, Ok(JNull))

\* BaseApi::validate_response with string data decrypted as MpcBaseApi does
waas_validate_response_decrypting(api, T, response) ==
    LET code == waas_code(response.code)
    IN IF code # 0
       THEN Validated(code, <<>>, ApiError(code, message_of(response.msg)))
       ELSE IF response.data.t = "str"
            THEN LET decrypted == provider_decrypt(api.crypto_provider, response.data.s)
                     parsed    == from_str(decrypted.val)
                 IN IF ~decrypted.ok
                    THEN Validated(code, <<response.data.s>>, Err("Crypto"))
                    ELSE IF ~parsed.ok
                         THEN Validated(code, <<response.data.s>>, Err("Validation"))
                    ELSE Validated(code, <<response.data.s>>, from_value(T, parsed.val))
       ELSE IF response.data.t # "absent"
            THEN Validated(code, <<>>, from_value(T, response.data))
       ELSE Validated(code, <<>>, from_value(T, JNull))

\* BaseApi::validate_response::<T>
waas_validate_response(api, T, response) ==
    LET code == waas_code(response.code)
    IN IF code # 0
       THEN Validated(code, <<>>, ApiError(code, message_of(response.msg)))
       ELSE IF response.data.t # "absent"
            THEN Validated(code, <<>>, from_value(T, response.data))
       ELSE IF from_value(T, JArrayEmpty).ok
            THEN Validated(code, <<>>, from_value(T, JArrayEmpty))
       ELSE IF from_value(T, JNull).ok
            THEN Validated(code, <<>>, from_value(T, JNull))
       ELSE Validated(code, <<>>, from_value(T, response))

\* BaseApi::validate_response_raw
waas_validate_response_raw(api, T, response) ==
    LET code == waas_code(response.code)
    IN IF code # 0
       THEN Validated(code, <<>>, ApiError(code, message_of(response.msg)))
       ELSE IF response.data.t # "absent"
            THEN Validated(code, <<>>, Ok(response.data))
       ELSE Validated(code, <<>>, Ok(response))

\* the pipeline of an api object: MpcBaseApi or BaseApi
execute_request(api, method, path, data, now, net) ==
    IF api.kind = "mpc"
    THEN mpc_execute_request(api, method, path, data, now, net)
    ELSE waas_execute_request(api, method, path, data, now, net)

validate_response(api, T, response) ==
    IF api.kind = "mpc"
    THEN mpc_validate_response(api, T, response)
    ELSE waas_validate_response(api, T, response)

validate_response_raw(api, T, response) ==
    IF api.kind = "mpc"
    THEN mpc_validate_response_raw(api, T, response)
    ELSE waas_validate_response_raw(api, T, response)

\* ------------------------------------------------------------------------
\* Transaction signing: MpcSignUtil, WithdrawApi, Web3Api
\* ------------------------------------------------------------------------
\* Strings are sequences of ASCII codes.  The codes of the field-name
\* literals of the source:
Ascii ==
    [
      request_id           |-> <<114, 101, 113, 117, 101, 115, 116, 95, 105, 100>>,
      sub_wallet_id        |-> <<115, 117, 98, 95, 119, 97, 108, 108, 101, 116, 95, 105, 100>>,
      symbol               |-> <<115, 121, 109, 98, 111, 108>>,
      amount               |-> <<97, 109, 111, 117, 110, 116>>,
      address_to           |-> <<97, 100, 100, 114, 101, 115, 115, 95, 116, 111>>,
      from                 |-> <<102, 114, 111, 109>>,
      memo                 |-> <<109, 101, 109, 111>>,
      remark               |-> <<114, 101, 109, 97, 114, 107>>,
      outputs              |-> <<111, 117, 116, 112, 117, 116, 115>>,
      sign                 |-> <<115, 105, 103, 110>>,
      main_chain_symbol    |-> <<109, 97, 105, 110, 95, 99, 104, 97, 105, 110, 95, 115, 121, 109, 98, 111, 108>>,
      interactive_contract |-> <<105, 110, 116, 101, 114, 97, 99, 116, 105, 118, 101, 95, 99, 111, 110, 116, 114, 97, 99, 116>>,
      gas_price            |-> <<103, 97, 115, 95, 112, 114, 105, 99, 101>>,
      gas_limit            |-> <<103, 97, 115, 95, 108, 105, 109, 105, 116>>,
      input_data           |-> <<105, 110, 112, 117, 116, 95, 100, 97, 116, 97>>,
      trans_type           |-> <<116, 114, 97, 110, 115, 95, 116, 121, 112, 101>>,
      dapp_name            |-> <<100, 97, 112, 112, 95, 110, 97, 109, 101>>,
      dapp_url             |-> <<100, 97, 112, 112, 95, 117, 114, 108>>,
      dapp_img             |-> <<100, 97, 112, 112, 95, 105, 109, 103>>,
      time                 |-> <<116, 105, 109, 101>>,
      charset              |-> <<99, 104, 97, 114, 115, 101, 116>>
    ]

\* <str as Ord>::lt: byte-wise lexicographic order
RECURSIVE StrLess(_, _)
StrLess(a, b) ==
    IF b = <<>> THEN FALSE
    ELSE IF a = <<>> THEN TRUE
    ELSE IF Head(a) # Head(b) THEN Head(a) < Head(b)
    ELSE StrLess(Tail(a), Tail(b))

\* BTreeMap::insert that leaves the entries in insertion order
RECURSIVE BTreeAppend(_, _, _)
BTreeAppend(map, k, v) ==
    IF map = <<>> THEN <<<<k, v>>>>
    ELSE IF Head(map)[1] = k THEN <<<<k, v>>>> \o Tail(map)
    ELSE <<Head(map)>> \o BTreeAppend(Tail(map), k, v)

\* BTreeMap::insert; the map is the sequence of its entries in key order
RECURSIVE BTreeInsert(_, _, _)
BTreeInsert(map, k, v) ==
    IF map = <<>> THEN <<<<k, v>>>>
    ELSE IF Head(map)[1] = k THEN <<<<k, v>>>> \o Tail(map)
    ELSE IF StrLess(k, Head(map)[1]) THEN <<<<k, v>>>> \o map
    ELSE <<Head(map)>> \o BTreeInsert(Tail(map), k, v)

\* the BTreeMap after the inserts of `entries`, in their order
RECURSIVE BTreeFrom(_)
BTreeFrom(entries) ==
    IF entries = <<>> THEN <<>>
    ELSE LET last == entries[Len(entries)]
         IN BTreeInsert(BTreeFrom(SubSeq(entries, 1, Len(entries) - 1)),
                        last[1], last[2])

\* Iterator::filter(|(_, v)| !v.is_empty())
RECURSIVE FilterNonEmpty(_)
FilterNonEmpty(map) ==
    IF map = <<>> THEN <<>>
    ELSE IF Head(map)[2] = <<>> THEN FilterNonEmpty(Tail(map))
    ELSE <<Head(map)>> \o FilterNonEmpty(Tail(map))

\* [String]::join("&")
RECURSIVE Join(_, _)
Join(parts, sep) ==
    IF parts = <<>> THEN <<>>
    ELSE IF Len(parts) = 1 THEN parts[1]
    ELSE parts[1] \o <<sep>> \o Join(Tail(parts), sep)

\* format!("{}={}", k, v)
FormatPair(entry) == entry[1] \o <<ChEq>> \o entry[2]

\* build_sign_string with the filter on empty values left out
build_sign_string_keep_empty(params) ==
    Join([i \in 1 .. Len(params) |-> FormatPair(params[i])], ChAmp)

\* MpcSignUtil::build_sign_string
build_sign_string(params) ==
    LET kept == FilterNonEmpty(params)
    IN Join([i \in 1 .. Len(kept) |-> FormatPair(kept[i])], ChAmp)

\* str::to_lowercase on ASCII text
to_lowercase(string) ==
    [i \in 1 .. Len(string) |->
        IF string[i] >= ChUpperA /\ string[i] <= ChUpperZ
        THEN string[i] + (ChLowerA - ChUpperA)
        ELSE string[i]]

\* the decimal digits of a natural number
RECURSIVE Decimal(_)
Decimal(n) ==
    IF n < 10 THEN <<Ch0 + n>>
    ELSE Decimal(n \div 10) \o <<Ch0 + (n % 10)>>

\* i64::to_string
i64_to_string(n) == IF n < 0 THEN <<ChMinus>> \o Decimal(0 - n) ELSE Decimal(n)

\* Option<String>
None == [some |-> FALSE, v |-> <<>>]

Some(v) == [some |-> TRUE, v |-> v]

\* Option<bool>
NoneBool == [some |-> FALSE, v |-> FALSE]

SomeBool(b) == [some |-> TRUE, v |-> b]

\* the signature text of `data` made with `key`
SignatureText(key, data) == [kind |-> "signature", key |-> key.n, plain |-> data]

\* dyn CryptoProvider::sign, as the signing helpers see it
provider_sign(p, data) ==
    IF ~IsSome(SigningKey(p)) THEN Err("Crypto")
    ELSE Ok(SignatureText(SigningKey(p), data))

\* what a generate_*_sign call did: the string it handed to sign, and what
\* it returned
Signed(sign_string, result) == [sign_string |-> sign_string, result |-> result]

\* the inserts of an Option field: one when it is Some, none otherwise
IfSome(name, option) ==
    IF option.some THEN <<<<Ascii[name], option.v>>>> ELSE <<>>

\* MpcSignUtil::generate_withdraw_sign
generate_withdraw_sign(params, crypto_provider) ==
    LET sign_map ==
            BTreeFrom(<< <<Ascii["request_id"], params.request_id>>,
                         <<Ascii["sub_wallet_id"], i64_to_string(params.sub_wallet_id)>>,
                         <<Ascii["symbol"], params.symbol>>,
                         <<Ascii["address_to"], params.address_to>>,
                         <<Ascii["amount"], params.amount>> >>
                      \o IfSome("memo", params.memo)
                      \o IfSome("outputs", params.outputs))
        sign_string == to_lowercase(build_sign_string(sign_map))
    IN Signed(sign_string, provider_sign(crypto_provider, sign_string))

\* MpcSignUtil::generate_web3_sign
generate_web3_sign(params, crypto_provider) ==
    LET sign_map ==
            BTreeFrom(<< <<Ascii["request_id"], params.request_id>>,
                         <<Ascii["sub_wallet_id"], i64_to_string(params.sub_wallet_id)>>,
                         <<Ascii["main_chain_symbol"], params.main_chain_symbol>>,
                         <<Ascii["interactive_contract"], params.interactive_contract>>,
                         <<Ascii["amount"], params.amount>>,
                         <<Ascii["input_data"], params.input_data>> >>)
        sign_string == to_lowercase(build_sign_string(sign_map))
    IN Signed(sign_string, provider_sign(crypto_provider, sign_string))

\* HashMap::insert of an Option field when it is Some
MapWith(map, names, params) ==
    [k \in DOMAIN map \cup {n \in names : params[n].some} |->
        IF k \in DOMAIN map THEN map[k] ELSE JStr(params[k].v)]

\* HashMap::insert
MapInsert(map, name, value) ==
    [k \in DOMAIN map \cup {name} |-> IF k = name THEN value ELSE map[k]]

\* WithdrawParams::to_map
withdraw_to_map(params) ==
    MapWith([request_id    |-> JStr(params.request_id),
             sub_wallet_id |-> JNum(params.sub_wallet_id),
             symbol        |-> JStr(params.symbol),
             amount        |-> JStr(params.amount),
             address_to    |-> JStr(params.address_to)],
            {"from", "memo", "remark", "outputs"}, params)

\* to_sign_params with the memo taken from the remark
withdraw_to_sign_params_remark(params) ==
    [request_id    |-> params.request_id,
     sub_wallet_id |-> params.sub_wallet_id,
     symbol        |-> params.symbol,
     address_to    |-> params.address_to,
     amount        |-> params.amount,
     memo          |-> params.remark,
     outputs       |-> params.outputs]

\* WithdrawParams::to_sign_params
withdraw_to_sign_params(params) ==
    [request_id    |-> params.request_id,
     sub_wallet_id |-> params.sub_wallet_id,
     symbol        |-> params.symbol,
     address_to    |-> params.address_to,
     amount        |-> params.amount,
     memo          |-> params.memo,
     outputs       |-> params.outputs]

\* CreateWeb3TransParams::to_map
web3_to_map(params) ==
    MapWith([request_id           |-> JStr(params.request_id),
             sub_wallet_id        |-> JNum(params.sub_wallet_id),
             main_chain_symbol    |-> JStr(params.main_chain_symbol),
             interactive_contract |-> JStr(params.interactive_contract),
             amount               |-> JStr(params.amount),
             gas_price            |-> JStr(params.gas_price),
             gas_limit            |-> JStr(params.gas_limit),
             input_data           |-> JStr(params.input_data),
             trans_type           |-> JStr(params.trans_type)],
            {"from", "dapp_name", "dapp_url", "dapp_img"}, params)

\* CreateWeb3TransParams::to_sign_params
web3_to_sign_params(params) ==
    [request_id           |-> params.request_id,
     sub_wallet_id        |-> params.sub_wallet_id,
     main_chain_symbol    |-> params.main_chain_symbol,
     interactive_contract |-> params.interactive_contract,
     amount               |-> params.amount,
     input_data           |-> params.input_data]

\* WithdrawApi::new / Web3Api::new: the flag computed from the config
sign_private_key_available(config) ==
    config.sign_private_key # "" \/ config.rsa_private_key # ""

\* what a handler did: the strings it handed to sign, the execute_request
\* calls it made, and what it returned
Handled(sign_calls, calls, result) ==
    [sign_calls |-> sign_calls, calls |-> calls, result |-> result]

\* the tail of both handlers: base.post(path, data), validate_response
PostAndValidate(api, path, data, sign_calls, now, net) ==
    LET posted == mpc_execute_request(api, "POST", path, data, now, net)
    IN IF ~posted.result.ok THEN Handled(sign_calls, <<posted>>, posted.result)
       ELSE Handled(sign_calls, <<posted>>,
                    mpc_validate_response(api, TStruct, posted.result.val).result)

\* WithdrawApi::withdraw with the signature computed ahead of the checks
withdraw_signing_first(api, params, now, net) ==
    LET need_sign == IF params.need_transaction_sign.some
                     THEN params.need_transaction_sign.v ELSE FALSE
        data      == withdraw_to_map(params)
        signature == generate_withdraw_sign(withdraw_to_sign_params(params),
                                            api.crypto_provider)
        signed    == IF need_sign THEN <<signature.sign_string>> ELSE <<>>
    IN IF params.request_id = <<>> \/ params.symbol = <<>>
          \/ params.amount = <<>> \/ params.address_to = <<>>
       THEN Handled(signed, <<>>, Err("Validation"))
       ELSE IF need_sign /\ ~sign_private_key_available(api.config)
       THEN Handled(signed, <<>>, Err("Validation"))
       ELSE IF ~need_sign
       THEN PostAndValidate(api, "/api/mpc/billing/withdraw", data, <<>>, now, net)
       ELSE IF ~signature.result.ok
       THEN Handled(signed, <<>>, signature.result)
       ELSE PostAndValidate(api, "/api/mpc/billing/withdraw",
                            MapInsert(data, "sign", JStr(signature.result.val)),
                            signed, now, net)

\* WithdrawApi::withdraw
withdraw(api, params, now, net) ==
    LET need_sign == IF params.need_transaction_sign.some
                     THEN params.need_transaction_sign.v ELSE FALSE
        data      == withdraw_to_map(params)
        signature == generate_withdraw_sign(withdraw_to_sign_params(params),
                                            api.crypto_provider)
    IN IF params.request_id = <<>> \/ params.symbol = <<>>
          \/ params.amount = <<>> \/ params.address_to = <<>>
       THEN Handled(<<>>, <<>>, Err("Validation"))
       ELSE IF need_sign /\ ~sign_private_key_available(api.config)
       THEN Handled(<<>>, <<>>, Err("Validation"))
       ELSE IF ~need_sign
       THEN PostAndValidate(api, "/api/mpc/billing/withdraw", data, <<>>, now, net)
       ELSE IF ~signature.result.ok
       THEN Handled(<<signature.sign_string>>, <<>>, signature.result)
       ELSE PostAndValidate(api, "/api/mpc/billing/withdraw",
                            MapInsert(data, "sign", JStr(signature.result.val)),
                            <<signature.sign_string>>, now, net)

\* Web3Api::create_web3_trans
create_web3_trans(api, params, now, net) ==
    LET need_sign == IF params.need_transaction_sign.some
                     THEN params.need_transaction_sign.v ELSE FALSE
        data      == web3_to_map(params)
        signature == generate_web3_sign(web3_to_sign_params(params),
                                        api.crypto_provider)
    IN IF \E name \in {"request_id", "main_chain_symbol", "interactive_contract",
                       "amount", "gas_price", "gas_limit", "input_data",
                       "trans_type"} : params[name] = <<>>
       THEN Handled(<<>>, <<>>, Err("Validation"))
       ELSE IF need_sign /\ ~sign_private_key_available(api.config)
       THEN Handled(<<>>, <<>>, Err("Validation"))
       ELSE IF ~need_sign
       THEN PostAndValidate(api, "/api/mpc/web3/trans/create", data, <<>>, now, net)
       ELSE IF ~signature.result.ok
       THEN Handled(<<signature.sign_string>>, <<>>, signature.result)
       ELSE PostAndValidate(api, "/api/mpc/web3/trans/create",
                            MapInsert(data, "sign", JStr(signature.result.val)),
                            <<signature.sign_string>>, now, net)

\* ------------------------------------------------------------------------
\* State
\* ------------------------------------------------------------------------
VARIABLES
    provider,   \* the RsaCryptoProvider under test (immutable once built)
    op,         \* the operation applied last
    data,       \* its plaintext argument (the data encrypted or signed)
    text,       \* its base64 argument or product (ciphertext, signature)
    result,     \* what it returned
    api,        \* the api object of a pipeline call (config and provider)
    req,        \* the call's method, path, parameters, type and clock
    net,        \* what the HTTP exchange of the call will yield
    call,       \* what execute_request did and returned
    validated   \* what validate_response did and returned

cryptoVars == <<provider, op, data, text, result>>

pipelineVars == <<api, req, net, call, validated>>

vars == <<provider, op, data, text, result, api, req, net, call, validated>>

\* the value of a variable that takes no part in a specification
Idle == "idle"

\* ------------------------------------------------------------------------
\* Provider operations
\* ------------------------------------------------------------------------
\* what a peer holding `key` sends as the signature of `msg` when it signs
\* SHA-256(msg) without a DigestInfo prefix
PeerSignature(key, msg) ==
    StandardEncode(Pkcs1v15SignUnprefixed(key, Sha256(msg)).val)

\* signature texts a caller may hand to verify
SignatureTexts(msg) ==
    { <<BadChar, 0, 0, 0>>,
      <<0>>,
      StandardEncode(<<1, 2>>),
      StandardEncode(Repeat(1, size(KeyA))),
      PeerSignature(KeyA, msg),
      LET sig == PeerSignature(KeyA, msg)
      IN SubSeq(sig, 1, Len(sig) - TrailingPads(sig)) }

CryptoInit ==
    /\ provider \in Providers
    /\ op = "new"
    /\ data \in Strings
    /\ text = <<>>
    /\ result = Ok(<<>>)
    /\ api = Idle
    /\ req = Idle
    /\ net = Idle
    /\ call = Idle
    /\ validated = Idle

\* provider.encrypt_with_private_key(data)
Encrypt ==
    LET r == encrypt_with_private_key(provider, data)
    IN /\ op = "new"
       /\ op' = "encrypt"
       /\ text' = r.val
       /\ result' = r
       /\ UNCHANGED <<provider, data, pipelineVars>>

\* the non-zero bytes a random source or a clock could hand to a call
Entropy == 1 .. FF

\* a second encrypt call whose padding bytes come from the entropy
EncryptAgainRandomPadding(entropy) ==
    LET key       == provider.private_key
        key_size  == size(key)
        max_block == key_size - PadOverhead
        count     == (Len(data) + max_block - 1) \div max_block
        block(i)  ==
            LET chunk  == SubSeq(data, (i - 1) * max_block + 1,
                                 Min(i * max_block, Len(data)))
                padded == <<0, 1>> \o Repeat(entropy, key_size - Len(chunk) - 3)
                          \o <<0>> \o chunk
                encrypted_bytes ==
                    to_bytes_be(modpow(from_bytes_be(padded), key.d, key.n))
            IN Repeat(0, key_size - Len(encrypted_bytes)) \o encrypted_bytes
    IN /\ op = "encrypt"
       /\ result.ok
       /\ op' = "encrypt_again"
       /\ result' = Ok(UrlSafeNoPadEncode(Concat([i \in 1 .. count |-> block(i)])))
       /\ UNCHANGED <<provider, data, text, pipelineVars>>

\* provider.encrypt_with_private_key(data) a second time, at another moment
\* and with other entropy at hand
EncryptAgain(entropy) ==
    /\ op = "encrypt"
    /\ result.ok
    /\ op' = "encrypt_again"
    /\ result' = encrypt_with_private_key(provider, data)
    /\ UNCHANGED <<provider, data, text, pipelineVars>>

\* provider.decrypt_with_public_key(c) on the ciphertext just produced
Decrypt ==
    /\ op = "encrypt"
    /\ result.ok
    /\ op' = "decrypt"
    /\ result' = decrypt_with_public_key(provider, text)
    /\ UNCHANGED <<provider, data, text, pipelineVars>>

\* provider.sign(data)
Sign ==
    LET r == sign(provider, data)
    IN /\ op = "new"
       /\ op' = "sign"
       /\ text' = r.val
       /\ result' = r
       /\ UNCHANGED <<provider, data, pipelineVars>>

\* provider.verify(data, sign(data)) on the signature just produced
Verify ==
    /\ op = "sign"
    /\ result.ok
    /\ op' = "verify"
    /\ result' = verify(provider, data, text)
    /\ UNCHANGED <<provider, data, text, pipelineVars>>

\* provider.verify(data, sig) on a signature received from outside
VerifyInput(sig) ==
    /\ op = "new"
    /\ op' = "verify_input"
    /\ text' = sig
    /\ result' = verify(provider, data, sig)
    /\ UNCHANGED <<provider, data, pipelineVars>>

CryptoNext ==
    \/ Encrypt
    \/ \E entropy \in Entropy : EncryptAgain(entropy)
    \/ Decrypt
    \/ Sign
    \/ Verify
    \/ \E sig \in SignatureTexts(data) : VerifyInput(sig)

SpecCrypto == CryptoInit /\ [][CryptoNext]_vars

\* ------------------------------------------------------------------------
\* Claims about the provider
\* ------------------------------------------------------------------------
\* C1: with a private key and the matching public key, decrypting what
\* encrypt_with_private_key(s) returned gives back Ok(s), for every s (the
\* empty string, several blocks, and 0x00 bytes included).
C1_RoundTrip ==
    (op = "decrypt" /\ Matched(provider)) => result = Ok(data)

\* C1 witness: a string of more than one block that contains a 0x00 byte
\* was encrypted and decrypted by a matched provider.
C1_Witness ==
    /\ op = "decrypt"
    /\ Matched(provider)
    /\ Len(data) > size(provider.private_key) - PadOverhead
    /\ \E i \in 1 .. Len(data) : data[i] = 0
    /\ result.ok

\* the signing key is the private half of the configured public key
SignerMatchesPublic(p) ==
    /\ IsSome(SigningKey(p))
    /\ IsSome(p.public_key)
    /\ SigningKey(p) = p.public_key

\* C2 (as claimed): when the signing key is the private half of the public
\* key, verify(s, sign(s)) returns true.
C2_SignVerifyRoundTrip ==
    (op = "verify" /\ SignerMatchesPublic(provider)) => result = Ok(TRUE)

C11_BlockCount ==
    (op = "encrypt" /\ result.ok) =>
        LET k      == size(provider.private_key)
            L      == Len(data)
            blocks == (L + (k - 11) - 1) \div (k - 11)
            bytes  == UrlSafeNoPadDecode(text)
        IN /\ bytes.ok
           /\ Len(bytes.val) = blocks * k
           /\ L = k - 11 => Len(bytes.val) = k
           /\ L = k - 10 => Len(bytes.val) = 2 * k

\* C11 witness: a plaintext of k - 10 bytes was encrypted to two blocks.
C11_Witness ==
    /\ op = "encrypt"
    /\ result.ok
    /\ Len(data) = size(provider.private_key) - 10
    /\ Len(UrlSafeNoPadDecode(text).val) = 2 * size(provider.private_key)

\* the signature text that `key` gives for `msg`
SignatureBy(key, msg) ==
    LET signature == Pkcs1v15SignUnprefixed(key, sha256_prefix \o Sha256(Md5Hex(msg)))
    IN IF ~signature.ok THEN Err("Crypto") ELSE Ok(StandardEncode(signature.val))

\* C15: sign uses the signing private key whenever one is configured, the
\* main private key only when no signing key is configured, and returns an
\* error when neither is configured; the public key configured, or its
\* absence, has no influence on what sign returns.
C15_SigningKeyChoice ==
    op = "sign" =>
        /\ IsSome(provider.sign_private_key)
               => result = SignatureBy(provider.sign_private_key, data)
        /\ (~IsSome(provider.sign_private_key) /\ IsSome(provider.private_key))
               => result = SignatureBy(provider.private_key, data)
        /\ (~IsSome(provider.sign_private_key) /\ ~IsSome(provider.private_key))
               => result = Err("Crypto")
        /\ \A pub \in {NoKey, KeyA, KeyB, KeyC} :
               sign([provider EXCEPT !.public_key = pub], data) = result

\* C15 witness: a provider with both keys signed, and the signature is the
\* signing key's, not the main private key's.
C15_Witness ==
    /\ op = "sign"
    /\ result.ok
    /\ IsSome(provider.sign_private_key)
    /\ IsSome(provider.private_key)
    /\ result = SignatureBy(provider.sign_private_key, data)
    /\ result # SignatureBy(provider.private_key, data)

Response(code, msg, dat) == [t |-> "obj", code |-> code, msg |-> msg, data |-> dat]

\* the data of a response: absent, null, structured, or a string.  `s` is
\* the string's text; a value that is no string carries a text no one reads
NoText(inner) == GarbageText(PlainText(inner))

DataOf(shape, inner) == [t |-> shape, s |-> NoText(inner)]

DataStr(string) == [t |-> "str", s |-> string]

\* the strings a server may put in `data`, around the values `inners`:
\* one that does not decrypt, the ciphertext of a text that is no JSON, the
\* ciphertext made with another key, and the ciphertexts of JSON texts
DataTexts(inners, inner) ==
    { NoText(inner),
      CipherText(KeyA, PlainText(inner)),
      CipherText(KeyC, JsonText(inner)) }
    \cup { CipherText(KeyA, JsonText(i)) : i \in inners }

DataValues(inners, inner) ==
    { DataOf(shape, inner) : shape \in {"absent", "null", "obj", "arr"} }
    \cup { DataStr(string) : string \in DataTexts(inners, inner) }

\* "0", "00", "+0", "10001", "", "x"
CodeTexts ==
    { <<48>>, <<48, 48>>, <<43, 48>>, <<49, 48, 48, 48, 49>>, <<>>, <<120>> }

\* 0, 10001, 2^32, 2^32 + 7 and -1 as i64 halves
CodeNumbers == { <<0, 0>>, <<0, 10001>>, <<1, 0>>, <<1, 7>>, <<-1, -1>> }

Codes ==
    { CodeAbsent, CodeNull, CodeFloat }
    \cup { CodeNum(hl[1], hl[2]) : hl \in CodeNumbers }
    \cup { CodeStr(chars) : chars \in CodeTexts }

Msgs == { MsgAbsent, MsgNull, MsgStr("denied") }

\* the payload an endpoint finally delivers
Payload == [t |-> "obj", s |-> PlainText("payload")]

\* the responses that travel encrypted inside `data`
InnerResponses ==
    { Response(c, m, d) : c \in Codes, m \in Msgs, d \in DataValues({Payload}, Payload) }

InnerDummy == Response(CodeAbsent, MsgAbsent, DataOf("absent", Payload))

\* the responses of the wire: any code and msg around data that is no
\* ciphertext of a response, and the envelope {data: ciphertext} (with or
\* without a top-level code) around every inner response
WireResponses ==
    { Response(c, m, d) : c \in Codes, m \in Msgs, d \in DataValues({}, InnerDummy) }
    \cup { Response(c, MsgAbsent, DataStr(CipherText(KeyA, JsonText(i)))) :
             c \in {CodeAbsent, CodeNum(0, 0)}, i \in InnerResponses }

\* the HTTP exchange: a failure, a body that is no JSON, a JSON body
Nets ==
    { [fail |-> TRUE, body |-> PlainText(InnerDummy)],
      [fail |-> FALSE, body |-> PlainText(InnerDummy)] }
    \cup { [fail |-> FALSE, body |-> JsonText(r)] : r \in WireResponses }

\* the providers of the pipeline: complete, without public key, without
\* private key
PipelineProviders ==
    { Provider(KeyA, KeyA, NoKey), Provider(KeyA, NoKey, NoKey),
      Provider(NoKey, KeyA, NoKey) }

Apis ==
    { [kind |-> k, app_id |-> "app-1", charset |-> Utf8Upper, crypto_provider |-> p] :
        k \in {"mpc", "waas"}, p \in PipelineProviders }
    \cup { [kind |-> "waas", app_id |-> "app-1", charset |-> Gbk,
            crypto_provider |-> Provider(KeyA, KeyA, NoKey)] }

EmptyMap == [k \in {} |-> JNum(0)]

\* the calls of the resource wrappers: a POST and a GET with parameters
\* ("ETH", 7), a GET with none (data = None), and a POST whose parameters
\* hold a `time` (5) and a `charset` ("L1") of the caller
Requests ==
    { [method |-> "POST", path |-> "/api/mpc/sub_wallet/create", T |-> TStruct,
       now |-> 1700, data |-> [symbol |-> JStr(<<69, 84, 72>>), sub_wallet_id |-> JNum(7)]],
      [method |-> "GET", path |-> "/api/mpc/coin_list", T |-> TValue,
       now |-> 1701, data |-> [symbol |-> JStr(<<69, 84, 72>>)]],
      [method |-> "GET", path |-> "/api/mpc/wallet/open_coin", T |-> TVec,
       now |-> 1702, data |-> EmptyMap],
      [method |-> "POST", path |-> "/api/mpc/billing/withdraw", T |-> TStruct,
       now |-> 1703, data |-> [symbol |-> JStr(<<69, 84, 72>>), time |-> JNum(5),
                               charset |-> JStr(<<76, 49>>)]] }

\* ------------------------------------------------------------------------
\* Pipeline calls: actions
\* ------------------------------------------------------------------------
Init ==
    /\ api \in Apis
    /\ req \in Requests
    /\ net \in Nets
    /\ op = "call"
    /\ call = Idle
    /\ validated = Idle
    /\ provider = api.crypto_provider
    /\ data = <<>>
    /\ text = <<>>
    /\ result = Ok(<<>>)

\* base.post(path, data) / base.get(path, data)
ExecuteRequest ==
    /\ op = "call"
    /\ op' = "executed"
    /\ call' = execute_request(api, req.method, req.path, req.data, req.now, net)
    /\ UNCHANGED <<api, req, net, validated, provider, data, text, result>>

\* base.validate_response(response) on the response execute_request returned
ValidateResponse ==
    /\ op = "executed"
    /\ call.result.ok
    /\ op' = "validated"
    /\ validated' = validate_response(api, req.T, call.result.val)
    /\ UNCHANGED <<api, req, net, call, provider, data, text, result>>

\* base.validate_response_raw(response)
ValidateResponseRaw ==
    /\ op = "executed"
    /\ call.result.ok
    /\ op' = "validated_raw"
    /\ validated' = validate_response_raw(api, req.T, call.result.val)
    /\ UNCHANGED <<api, req, net, call, provider, data, text, result>>

Next ==
    \/ ExecuteRequest
    \/ ValidateResponse
    \/ ValidateResponseRaw

Spec == Init /\ [][Next]_vars

\* ------------------------------------------------------------------------
\* Claims about the pipeline
\* ------------------------------------------------------------------------
Called == op \in {"executed", "validated", "validated_raw"}

\* C4: every HTTP request of the pipeline (GET or POST, MPC or WaaS) has
\* exactly the two fields app_id and data; data is the ciphertext of the
\* serialized body, and the caller's parameters, time and charset are in
\* that body only.
C4_RequestCarriesOnlyAppIdAndData ==
    Called =>
        /\ Len(call.sent) <= 1
        /\ \A i \in 1 .. Len(call.sent) :
              LET form == call.sent[i].form
              IN /\ DOMAIN form = {"app_id", "data"}
                 /\ form.app_id = api.app_id
                 /\ form.data.kind = "cipher"
                 /\ form.data.key = api.crypto_provider.private_key.n
                 /\ form.data.plain = call.raw_json
                 /\ call.raw_json.kind = "json"
                 /\ DOMAIN call.raw_json.plain = DOMAIN req.data \cup {"time", "charset"}
                 /\ \A k \in DOMAIN req.data \ {"time", "charset"} :
                        call.raw_json.plain[k] = req.data[k]

\* C4 witness: a GET with a caller parameter was sent.
C4_Witness ==
    /\ op = "executed"
    /\ req.method = "GET"
    /\ "symbol" \in DOMAIN req.data
    /\ Len(call.sent) = 1
    /\ call.sent[1].method = "GET"

\* the exchange delivered a JSON response to step 4 of execute_request
Delivered ==
    /\ Called
    /\ IsSome(api.crypto_provider.private_key)
    /\ ~net.fail
    /\ net.body.kind = "json"

\* the public key of the provider opens the text
Opens(p, string) ==
    /\ IsSome(p.public_key)
    /\ string.kind = "cipher"
    /\ string.key = p.public_key.n

\* C8: in execute_request (MPC and WaaS), a response whose data is a string
\* that fails to decrypt is returned raw and unchanged as Ok, and a response
\* whose data is no string is returned as-is without a decrypt attempt.
C8_RawResponseWhenNotDecrypted ==
    Delivered =>
        LET response == net.body.plain
        IN /\ response.data.t # "str" =>
                 /\ call.decrypt_calls = <<>>
                 /\ call.result = Ok(response)
           /\ (response.data.t = "str" /\ ~Opens(api.crypto_provider, response.data.s)) =>
                 /\ call.decrypt_calls = <<response.data.s>>
                 /\ call.result = Ok(response)

\* C8 witness: an MPC call got an error response whose data string does not
\* decrypt, and returned it raw with its code and msg.
C8_Witness ==
    /\ op = "executed"
    /\ api.kind = "mpc"
    /\ Delivered
    /\ net.body.plain.data.t = "str"
    /\ ~Opens(api.crypto_provider, net.body.plain.data.s)
    /\ net.body.plain.code = CodeStr(<<49, 48, 48, 48, 49>>)
    /\ net.body.plain.msg = MsgStr("denied")
    /\ call.result.ok
    /\ call.result.val.code = CodeStr(<<49, 48, 48, 48, 49>>)

\* the code is the literal 0: the number 0 or the string "0"
IsLiteralZero(code) == code = CodeNum(0, 0) \/ code = CodeStr(<<Ch0>>)

\* the i32 `c` is the number the server sent as `code`
IsServerCode(code, c) ==
    IF code.t = "num"
    THEN c = code.lo /\ code.hi = (IF code.lo < 0 THEN -1 ELSE 0)
    ELSE IF code.t = "str" /\ parse_i32(code.s).ok
    THEN c = parse_i32(code.s).val
    ELSE TRUE

\* C9 (as claimed): validate_response and validate_response_raw pass the
\* code check exactly when code is the number 0 or the string "0", and
\* otherwise return an ApiError with the server's code and the server's msg.
C9_CodeCheckExactlyLiteralZero ==
    op \in {"validated", "validated_raw"} =>
        LET response == call.result.val
            passes   == validated.result.err # "Api"
        IN /\ passes <=> IsLiteralZero(response.code)
           /\ ~passes =>
                 /\ IsServerCode(response.code, validated.result.val.code)
                 /\ response.msg.t = "str" =>
                        validated.result.val.message = response.msg.s

\* C10 (as claimed): once the code check has passed, validate_response
\* decrypts a string data before decoding it and decodes an object or array
\* data as-is without decryption, in the MPC and in the WaaS pipeline.
C10_ValidateDecryptsStringData ==
    (op = "validated" /\ validated.code = 0) =>
        LET response == call.result.val
        IN /\ response.data.t = "str" =>
                 validated.decrypt_calls = <<response.data.s>>
           /\ response.data.t \in {"obj", "arr"} =>
                 /\ validated.decrypt_calls = <<>>
                 /\ validated.result = from_value(req.T, response.data)

\* C10 (amended): once the code check has passed, MpcBaseApi decrypts a
\* string data and decodes the plaintext, and decodes an object or array
\* as-is; BaseApi (WaaS) never decrypts in validation: it decodes whatever
\* data is present, a string included, as-is.
C10_OnlyMpcValidateDecrypts ==
    (op = "validated" /\ validated.code = 0) =>
        LET response == call.result.val
            string   == response.data.s
        IN /\ (api.kind = "mpc" /\ response.data.t = "str") =>
                 /\ validated.decrypt_calls = <<string>>
                 /\ validated.result.ok =>
                       /\ Opens(api.crypto_provider, string)
                       /\ string.plain.kind = "json"
                       /\ validated.result.val = string.plain.plain
           /\ (api.kind = "mpc" /\ response.data.t \in {"obj", "arr"}) =>
                 /\ validated.decrypt_calls = <<>>
                 /\ validated.result = from_value(req.T, response.data)
           /\ (api.kind = "waas" /\ response.data.t # "absent") =>
                 /\ validated.decrypt_calls = <<>>
                 /\ validated.result = from_value(req.T, response.data)

\* C10 witness: a WaaS validation passed the code check with a string data
\* that its key would open, and returned the string undecrypted.
C10_Witness ==
    /\ op = "validated"
    /\ api.kind = "waas"
    /\ validated.code = 0
    /\ call.result.val.data.t = "str"
    /\ Opens(api.crypto_provider, call.result.val.data.s)
    /\ validated.decrypt_calls = <<>>
    /\ validated.result.ok
    /\ validated.result.val.t = "str"

\* C16: on a provider without a private key encrypt_with_private_key is a
\* Crypto error for every input, the empty string included, and yields no
\* ciphertext; the pipeline call that meets this error returns it and has
\* sent no request and received nothing to decrypt.
C16_NoPrivateKeyNothingSent ==
    (op = "executed" /\ ~IsSome(api.crypto_provider.private_key)) =>
        /\ \A d \in Strings :
               /\ raw_encrypt_with_private_key(api.crypto_provider, d) = Err("Crypto")
               /\ encrypt_with_private_key(api.crypto_provider, d) = Err("Crypto")
               /\ encrypt_with_private_key(api.crypto_provider, d).val = <<>>
        /\ call.result = Err("Crypto")
        /\ call.sent = <<>>
        /\ call.decrypt_calls = <<>>

\* C16 witness: a call on a provider that holds only a public key, with a
\* reachable server, ended in the Crypto error.
C16_Witness ==
    /\ op = "executed"
    /\ ~IsSome(api.crypto_provider.private_key)
    /\ IsSome(api.crypto_provider.public_key)
    /\ ~net.fail
    /\ call.result = Err("Crypto")
    /\ call.sent = <<>>

\* the i64 that the halves (hi, lo) of a numeric code stand for is the
\* i32 `c`: lo is c and hi is its sign extension
IsSameNumber(code, c) == c = code.lo /\ code.hi = (IF code.lo < 0 THEN -1 ELSE 0)

\* C27 (as claimed): for every numeric code of the i64 range the response
\* passes the code check only when the code is 0, and for every other
\* value the ApiError carries the server's code; the narrowing to 32 bits
\* turns no non-zero code into 0 or into another code.
C27_NumericCodeKeptByNarrowing ==
    (op \in {"validated", "validated_raw"} /\ call.result.val.code.t = "num") =>
        LET code == call.result.val.code
        IN /\ validated.result.err # "Api" => (code.hi = 0 /\ code.lo = 0)
           /\ validated.result.err = "Api" =>
                  IsSameNumber(code, validated.result.val.code)
           /\ validated.code = 0 => (code.hi = 0 /\ code.lo = 0)

\* the value of the code is zero: the number 0, or a string that reads 0
IsZeroCode(code) ==
    \/ code = CodeNum(0, 0)
    \/ code.t = "str" /\ parse_i32(code.s).ok /\ parse_i32(code.s).val = 0

\* C29 (as claimed): in the MPC pipeline a response whose data string does
\* not decrypt never becomes a success: execute_request returns the raw
\* response, and validate_response returns an ApiError when the top-level
\* code is non-zero or missing, and the Crypto error of its own decrypt
\* attempt on the same string when the code is 0.
C29_UndecryptableNeverSucceeds ==
    (/\ op = "validated"
     /\ api.kind = "mpc"
     /\ Delivered
     /\ net.body.plain.data.t = "str"
     /\ ~Opens(api.crypto_provider, net.body.plain.data.s)) =>
        LET response == net.body.plain
        IN /\ call.result = Ok(response)
           /\ ~validated.result.ok
           /\ ~IsZeroCode(response.code) =>
                  /\ validated.result.err = "Api"
                  /\ validated.decrypt_calls = <<>>
           /\ IsZeroCode(response.code) =>
                  /\ validated.result = Err("Crypto")
                  /\ validated.decrypt_calls = <<response.data.s>>

\* C30: when the data string of a response decrypts but the plaintext is
\* no JSON, the WaaS execute_request returns Ok with the raw response
\* unchanged and the MPC execute_request returns the validation error of
\* the JSON parser; neither returns a partly parsed value.
C30_DecryptedTextNoJson ==
    (/\ Delivered
     /\ net.body.plain.data.t = "str"
     /\ Opens(api.crypto_provider, net.body.plain.data.s)
     /\ net.body.plain.data.s.plain.kind # "json") =>
        LET response == net.body.plain
        IN /\ call.decrypt_calls = <<response.data.s>>
           /\ api.kind = "waas" => call.result = Ok(response)
           /\ api.kind = "mpc" => call.result = Err("Validation")
           /\ call.result.ok => call.result.val = response

\* C30 witness: an MPC call opened the data string of its response, found
\* no JSON in it and ended in the validation error.
C30_Witness ==
    /\ op = "executed"
    /\ api.kind = "mpc"
    /\ Delivered
    /\ net.body.plain.data.t = "str"
    /\ Opens(api.crypto_provider, net.body.plain.data.s)
    /\ net.body.plain.data.s.plain.kind = "plain"
    /\ call.decrypt_calls # <<>>
    /\ call.result = Err("Validation")

\* the serialized body of the call
RequestBody == call.raw_json.plain

\* the body holds the caller's fields and the two injected ones, with the
\* clock of Build as `time` and `literal` as `charset`
BodyWith(literal) ==
    /\ call.raw_json.kind = "json"
    /\ DOMAIN RequestBody = DOMAIN req.data \cup {"time", "charset"}
    /\ \A k \in DOMAIN req.data \ {"time", "charset"} : RequestBody[k] = req.data[k]
    /\ RequestBody["time"] = JNum(req.now)
    /\ RequestBody["charset"] = JStr(literal)

WithdrawInputs ==
    [request_id    : {<<>>, <<84, 120, 49>>},
     sub_wallet_id : {7, -12},
     symbol        : {<<69, 84, 72>>},
     amount        : {<<>>, <<49, 46, 53>>},
     address_to    : {<<48, 120, 65, 98>>},
     from          : {None, Some(<<48, 120, 70, 102>>)},
     memo          : {None, Some(<<>>), Some(<<72, 105>>)},
     remark        : {None, Some(<<114>>)},
     outputs       : {None, Some(<<79, 49>>)},
     need_transaction_sign : {NoneBool, SomeBool(FALSE), SomeBool(TRUE)}]

\* "Tx1", "ETH", "0xAb", "1.5", "20", "21000", "0xDE", "1", "0xFf", "Dapp"
Web3Inputs ==
    [request_id           : {<<>>, <<84, 120, 49>>},
     sub_wallet_id        : {7, -12},
     main_chain_symbol    : {<<69, 84, 72>>},
     interactive_contract : {<<48, 120, 65, 98>>},
     amount               : {<<49, 46, 53>>},
     gas_price            : {<<50, 48>>},
     gas_limit            : {<<>>, <<50, 49, 48, 48, 48>>},
     input_data           : {<<48, 120, 68, 69>>},
     trans_type           : {<<49>>},
     from                 : {None, Some(<<48, 120, 70, 102>>)},
     dapp_name            : {None, Some(<<68, 97, 112, 112>>)},
     dapp_url             : {None},
     dapp_img             : {None},
     need_transaction_sign : {NoneBool, SomeBool(FALSE), SomeBool(TRUE)}]

\* the MPC clients that sign: keys from the config (main key only, or a
\* dedicated signing key), a custom provider with no key in the config,
\* and a custom provider that cannot sign beside a key in the config
SignApis ==
    { [kind |-> "mpc", app_id |-> "app-1", charset |-> Utf8Lower,
       crypto_provider |-> pc[1], config |-> pc[2]] :
        pc \in { <<Provider(KeyA, KeyA, NoKey),
                   [rsa_private_key |-> "pem-A", sign_private_key |-> ""]>>,
                 <<Provider(KeyA, KeyA, KeyC),
                   [rsa_private_key |-> "pem-A", sign_private_key |-> "pem-C"]>>,
                 <<Provider(KeyA, KeyA, KeyC),
                   [rsa_private_key |-> "", sign_private_key |-> ""]>>,
                 <<Provider(NoKey, KeyA, NoKey),
                   [rsa_private_key |-> "pem-A", sign_private_key |-> ""]>> } }

\* the answers to a signed request: no answer, a refusal in clear, the
\* encrypted result
SignNets ==
    { [fail |-> TRUE, body |-> PlainText(InnerDummy)],
      [fail |-> FALSE,
       body |-> JsonText(Response(CodeStr(<<49, 48, 48, 48, 49>>), MsgStr("denied"),
                                  DataOf("absent", InnerDummy)))],
      [fail |-> FALSE,
       body |-> JsonText(Response(CodeAbsent, MsgAbsent,
                  DataStr(CipherText(KeyA,
                      JsonText(Response(CodeStr(<<Ch0>>), MsgStr("success"),
                                        DataOf("obj", Payload)))))))] }

\* the bijections of 1 .. n
Orders(n) ==
    { o \in [1 .. n -> 1 .. n] : \A i, j \in 1 .. n : o[i] = o[j] => i = j }

\* the values of the fields of a sign map: "", "Ab", "c"
SignValues == { <<>>, <<65, 98>>, <<99>> }

SignKeys == << Ascii["request_id"], Ascii["memo"], Ascii["amount"], Ascii["symbol"] >>

\* the insert sequences of a sign map: every order of the keys, every value
SignMapInputs ==
    { [i \in 1 .. Len(SignKeys) |-> <<SignKeys[o[i]], vals[o[i]]>>] :
        o \in Orders(Len(SignKeys)), vals \in [1 .. Len(SignKeys) -> SignValues] }

SignInit ==
    /\ \/ op = "new_withdraw" /\ req \in WithdrawInputs /\ api \in SignApis /\ net \in SignNets
       \/ op = "new_web3" /\ req \in Web3Inputs /\ api \in SignApis /\ net \in SignNets
       \/ op = "new_sign_map" /\ req \in SignMapInputs /\ api = Idle /\ net = Idle
    /\ call = Idle
    /\ validated = Idle
    /\ provider = Idle
    /\ data = <<>>
    /\ text = <<>>
    /\ result = Ok(<<>>)

\* withdraw_api.withdraw(params)
Withdraw ==
    /\ op = "new_withdraw"
    /\ op' = "withdraw"
    /\ call' = withdraw(api, req, 1700, net)
    /\ UNCHANGED <<api, req, net, validated, provider, data, text, result>>

\* web3_api.create_web3_trans(params)
CreateWeb3Trans ==
    /\ op = "new_web3"
    /\ op' = "web3"
    /\ call' = create_web3_trans(api, req, 1700, net)
    /\ UNCHANGED <<api, req, net, validated, provider, data, text, result>>

\* the canonical string of a sign map filled by the inserts of req
BuildSignString ==
    /\ op = "new_sign_map"
    /\ op' = "sign_string"
    /\ text' = to_lowercase(build_sign_string(BTreeFrom(req)))
    /\ UNCHANGED <<api, req, net, call, validated, provider, data, result>>

SignNext ==
    \/ Withdraw
    \/ CreateWeb3Trans
    \/ BuildSignString

SpecSign == SignInit /\ [][SignNext]_vars

\* ------------------------------------------------------------------------
\* Claims about signing
\* ------------------------------------------------------------------------
\* the position of the first `c` in `string`, or 0
RECURSIVE IndexOf(_, _, _)
IndexOf(string, c, from) ==
    IF from > Len(string) THEN 0
    ELSE IF string[from] = c THEN from
    ELSE IndexOf(string, c, from + 1)

\* the pieces of `string` between the separators
RECURSIVE Split(_, _)
Split(string, sep) ==
    LET i == IndexOf(string, sep, 1)
    IN IF i = 0 THEN <<string>>
       ELSE <<SubSeq(string, 1, i - 1)>> \o Split(SubSeq(string, i + 1, Len(string)), sep)

\* a sign string read back as its sequence of <<key, value>> pairs
ParsePairs(string) ==
    IF string = <<>> THEN <<>>
    ELSE LET pieces == Split(string, ChAmp)
         IN [i \in 1 .. Len(pieces) |->
                LET e == IndexOf(pieces[i], ChEq, 1)
                IN <<SubSeq(pieces[i], 1, e - 1),
                     SubSeq(pieces[i], e + 1, Len(pieces[i]))>>]

\* a handler signed: it handed a string to the provider's sign
HandlerSigned == op \in {"withdraw", "web3"} /\ call.sign_calls # <<>>

\* the fields considered for signing, with the caller's values
SignFields ==
    IF op = "withdraw"
    THEN { <<"request_id", req.request_id>>,
           <<"sub_wallet_id", i64_to_string(req.sub_wallet_id)>>,
           <<"symbol", req.symbol>>,
           <<"address_to", req.address_to>>,
           <<"amount", req.amount>> }
         \cup (IF req.memo.some THEN {<<"memo", req.memo.v>>} ELSE {})
         \cup (IF req.outputs.some THEN {<<"outputs", req.outputs.v>>} ELSE {})
    ELSE { <<"request_id", req.request_id>>,
           <<"sub_wallet_id", i64_to_string(req.sub_wallet_id)>>,
           <<"main_chain_symbol", req.main_chain_symbol>>,
           <<"interactive_contract", req.interactive_contract>>,
           <<"amount", req.amount>>,
           <<"input_data", req.input_data>> }

\* C5: the string handed to sign by generate_withdraw_sign and
\* generate_web3_sign is the key=value pairs of the fields with non-empty
\* values, in ascending byte order of the keys, joined by '&', all
\* lower-cased; the signature sent is the provider's signature of it.
C5_CanonicalSignString ==
    HandlerSigned =>
        LET sign_string == call.sign_calls[1]
            pairs       == ParsePairs(sign_string)
        IN /\ Len(call.sign_calls) = 1
           /\ \A i \in 1 .. Len(pairs) - 1 : StrLess(pairs[i][1], pairs[i + 1][1])
           /\ { pairs[i] : i \in 1 .. Len(pairs) }
                 = { <<Ascii[f[1]], to_lowercase(f[2])>> :
                       f \in { g \in SignFields : g[2] # <<>> } }
           /\ \A i \in 1 .. Len(sign_string) :
                 ~(sign_string[i] >= ChUpperA /\ sign_string[i] <= ChUpperZ)
           /\ \A i \in 1 .. Len(call.calls) :
                 call.calls[i].raw_json.plain["sign"].s
                     = SignatureText(SigningKey(api.crypto_provider), sign_string)

\* C5 witness: a withdrawal with an empty memo and upper-case letters in
\* its values was signed and posted.
C5_Witness ==
    /\ HandlerSigned
    /\ op = "withdraw"
    /\ req.memo = Some(<<>>)
    /\ req.outputs.some
    /\ Len(call.calls) = 1
    /\ Len(call.calls[1].sent) = 1

\* the inserts of req whose value is not empty
NonEmptyInserts == SelectSeq(req, LAMBDA entry : entry[2] # <<>>)

\* C6: the canonical string depends only on the set of pairs with non-empty
\* values: every insertion order of those pairs alone, without the fields
\* of empty value, builds the same string.
C6_OrderAndEmptyInsensitive ==
    op = "sign_string" =>
        \A o \in Orders(Len(NonEmptyInserts)) :
            to_lowercase(build_sign_string(
                BTreeFrom([i \in 1 .. Len(NonEmptyInserts) |-> NonEmptyInserts[o[i]]])))
              = text

\* C6 witness: a sign map filled out of key order, with an empty value
\* among three non-empty ones.
C6_Witness ==
    /\ op = "sign_string"
    /\ Len(NonEmptyInserts) = 3
    /\ StrLess(req[2][1], req[1][1])
    /\ req[3][2] = <<>>
    /\ text # <<>>

\* the text of a body value: the string, or the decimal of the number
TextOf(value) == IF value.t = "str" THEN value.s ELSE i64_to_string(value.n)

\* the field names the claim lists for the signed string
SignedNames ==
    IF op = "withdraw"
    THEN {"request_id", "sub_wallet_id", "symbol", "address_to", "amount",
          "memo", "outputs"}
    ELSE {"request_id", "sub_wallet_id", "main_chain_symbol",
          "interactive_contract", "amount", "input_data"}

RequiredNames ==
    IF op = "withdraw"
    THEN {"request_id", "symbol", "amount", "address_to"}
    ELSE {"request_id", "main_chain_symbol", "interactive_contract", "amount",
          "gas_price", "gas_limit", "input_data", "trans_type"}

NeedSign == req.need_transaction_sign.some /\ req.need_transaction_sign.v

\* the checks at the head of the handler refuse the call
Refused ==
    \/ \E name \in RequiredNames : req[name] = <<>>
    \/ NeedSign /\ ~sign_private_key_available(api.config)

\* C28: withdraw and create_web3_trans check the required fields and the
\* availability of signing before anything else: on a validation error
\* nothing is signed, encrypted or sent; the body has a `sign` field
\* exactly when need_transaction_sign is true; the signature is computed
\* before the request is encrypted (the ciphertext covers it); if signing
\* fails no request is made.
C28_ChecksThenSignThenSend ==
    op \in {"withdraw", "web3"} =>
        /\ Refused => call = Handled(<<>>, <<>>, Err("Validation"))
        /\ ~Refused => (call.sign_calls # <<>> <=> NeedSign)
        /\ Len(call.sign_calls) <= 1
        /\ Len(call.calls) <= 1
        /\ \A i \in 1 .. Len(call.calls) :
               LET body == call.calls[i].raw_json.plain
               IN /\ "sign" \in DOMAIN body <=> NeedSign
                  /\ NeedSign =>
                         /\ call.sign_calls # <<>>
                         /\ provider_sign(api.crypto_provider, call.sign_calls[1]).ok
                         /\ body["sign"] =
                                JStr(provider_sign(api.crypto_provider,
                                                   call.sign_calls[1]).val)
                  /\ \A j \in 1 .. Len(call.calls[i].sent) :
                         call.calls[i].sent[j].form.data.plain = call.calls[i].raw_json
        /\ \A i \in 1 .. Len(call.sign_calls) :
               ~provider_sign(api.crypto_provider, call.sign_calls[i]).ok =>
                   /\ call.calls = <<>>
                   /\ call.result = Err("Crypto")

\* C28 witness: a web3 call with all fields was to be signed by a provider
\* that cannot sign: the string was handed to sign and no request was made.
C28_Witness ==
    /\ op = "web3"
    /\ ~Refused
    /\ NeedSign
    /\ call.sign_calls # <<>>
    /\ ~provider_sign(api.crypto_provider, call.sign_calls[1]).ok
    /\ call.calls = <<>>
    /\ call.result = Err("Crypto")

\* ------------------------------------------------------------------------
\* Claims about a caller-supplied provider
\* ------------------------------------------------------------------------
\* the client that MpcConfig::new builds around the keys of a provider
WithConfigKeys(a) ==
    [a EXCEPT !.config = [rsa_private_key  |-> "pem-A",
                          sign_private_key |-> IF IsSome(a.crypto_provider.sign_private_key)
                                               THEN "pem-C" ELSE ""]]

\* C14 (as claimed): with a caller-supplied provider and no key strings in
\* the config, withdraw and create_web3_trans, need_transaction_sign = true
\* included, proceed as they do when the same keys come from the config:
\* the same strings are signed, the same request is sent, the same result
\* is returned.
C14_SuppliedProviderChangesNothing ==
    /\ (op = "withdraw" /\ api.config.rsa_private_key = "")
           => call = withdraw(WithConfigKeys(api), req, 1700, net)
    /\ (op = "web3" /\ api.config.rsa_private_key = "")
           => call = create_web3_trans(WithConfigKeys(api), req, 1700, net)

\* ------------------------------------------------------------------------
\* Key texts: RsaCryptoProvider::format_rsa_key and RsaCryptoProvider::new
\* ------------------------------------------------------------------------
\* A key text is a sequence of characters: ASCII codes, and one code above
\* ASCII for each of the eight header and footer lines of `headers`, which
\* contains() and replace() treat as a whole.
ChNL == 10

ChCR == 13

ChSP == 32

ChTAB == 9

\* U+000B, a whitespace that trim() removes and the replace() calls do not
ChVT == 11

BeginPrivateKey == 128

EndPrivateKey == 129

BeginRsaPrivateKey == 130

EndRsaPrivateKey == 131

BeginPublicKey == 132

EndPublicKey == 133

BeginRsaPublicKey == 134

EndRsaPublicKey == 135

\* chunks(64)
LineWidth == 64

\* char::is_whitespace, on the characters of the model
IsWhitespace(c) == c \in {ChNL, ChCR, ChSP, ChTAB, ChVT}

\* str::trim
RECURSIVE TrimStart(_)
TrimStart(key) ==
    IF key # <<>> /\ IsWhitespace(Head(key)) THEN TrimStart(Tail(key)) ELSE key

RECURSIVE TrimEnd(_)
TrimEnd(key) ==
    IF key # <<>> /\ IsWhitespace(key[Len(key)])
    THEN TrimEnd(SubSeq(key, 1, Len(key) - 1))
    ELSE key

trim(key) == TrimEnd(TrimStart(key))

\* str::contains of one character or header
contains(key, c) == \E i \in 1 .. Len(key) : key[i] = c

\* the `headers` array
headers ==
    { BeginPrivateKey, EndPrivateKey, BeginRsaPrivateKey, EndRsaPrivateKey,
      BeginPublicKey, EndPublicKey, BeginRsaPublicKey, EndRsaPublicKey }

\* the replace(.., "") calls: every header, then '\n', '\r', ' ', '\t'
StripHeadersAndWhitespace(key) ==
    SelectSeq(key, LAMBDA c : c \notin headers \cup {ChNL, ChCR, ChSP, ChTAB})

\* chunks(64) joined by "\n"
RECURSIVE Rewrap(_)
Rewrap(key) ==
    IF Len(key) <= LineWidth THEN key
    ELSE SubSeq(key, 1, LineWidth) \o <<ChNL>>
         \o Rewrap(SubSeq(key, LineWidth + 1, Len(key)))

\* format_rsa_key with the base64 left on one line
format_rsa_key_one_line(key_text, key_type) ==
    LET key        == trim(key_text)
        is_private == contains(key, BeginPrivateKey) \/ contains(key, BeginRsaPrivateKey)
        is_public  == contains(key, BeginPublicKey) \/ contains(key, BeginRsaPublicKey)
        formatted_base64 == StripHeadersAndWhitespace(key)
    IN IF /\ (key_type = "private" /\ is_private) \/ (key_type = "public" /\ is_public)
          /\ contains(key, ChNL)
       THEN key
       ELSE IF key_type = "private"
       THEN <<BeginPrivateKey, ChNL>> \o formatted_base64 \o <<ChNL, EndPrivateKey>>
       ELSE <<BeginPublicKey, ChNL>> \o formatted_base64 \o <<ChNL, EndPublicKey>>

\* RsaCryptoProvider::format_rsa_key
format_rsa_key(key_text, key_type) ==
    LET key        == trim(key_text)
        is_private == contains(key, BeginPrivateKey) \/ contains(key, BeginRsaPrivateKey)
        is_public  == contains(key, BeginPublicKey) \/ contains(key, BeginRsaPublicKey)
        formatted_base64 == Rewrap(StripHeadersAndWhitespace(key))
    IN IF /\ (key_type = "private" /\ is_private) \/ (key_type = "public" /\ is_public)
          /\ contains(key, ChNL)
       THEN key
       ELSE IF key_type = "private"
       THEN <<BeginPrivateKey, ChNL>> \o formatted_base64 \o <<ChNL, EndPrivateKey>>
       ELSE <<BeginPublicKey, ChNL>> \o formatted_base64 \o <<ChNL, EndPublicKey>>

\* a base64 body of `n` characters (letters), different for different `step`
Body(n, step) == [i \in 1 .. n |-> 65 + ((i * step) % 26)]

\* the PKCS#8 body of the private key and the SPKI body of the public key
\* of each key pair: one full line, two lines, three lines
PrivateBody(key) == IF key = KeyA THEN Body(70, 7) ELSE Body(64, 11)

PublicBody(key) == IF key = KeyA THEN Body(130, 5) ELSE Body(66, 3)

\* the elements of `seq` at the positions in `keep`, in order
Pick(seq, keep) ==
    [j \in 1 .. Cardinality(keep) |->
        seq[CHOOSE i \in keep : Cardinality({m \in keep : m <= i}) = j]]

\* "\r\n" read as "\n"
DropCR(pem) ==
    Pick(pem, { i \in 1 .. Len(pem) :
                  ~(pem[i] = ChCR /\ i < Len(pem) /\ pem[i + 1] = ChNL) })

\* str::lines on "\n"
Lines(pem) ==
    LET ends == Pick([i \in 1 .. Len(pem) + 1 |-> i],
                     { i \in 1 .. Len(pem) : pem[i] = ChNL } \cup {Len(pem) + 1})
    IN [j \in 1 .. Len(ends) |->
           SubSeq(pem, IF j = 1 THEN 1 ELSE ends[j - 1] + 1, ends[j] - 1)]

\* RsaPrivateKey::from_pkcs8_pem / RsaPublicKey::from_public_key_pem: the
\* PEM must be the PKCS#8 / SPKI boundary lines around base64 lines of 64
\* characters (the last one shorter or equal), and the body must be the
\* encoding of a key
from_pem(pem, key_type) ==
    LET lines  == Lines(DropCR(pem))
        n      == Len(lines)
        begin  == IF key_type = "private" THEN BeginPrivateKey ELSE BeginPublicKey
        end    == IF key_type = "private" THEN EndPrivateKey ELSE EndPublicKey
        body   == Concat(SubSeq(lines, 2, n - 1))
        wellformed ==
            /\ n >= 3
            /\ lines[1] = <<begin>>
            /\ lines[n] = <<end>>
            /\ \A i \in 2 .. (n - 2) : Len(lines[i]) = LineWidth
            /\ Len(lines[n - 1]) \in 1 .. LineWidth
        keys   == { k \in {KeyA, KeyC} :
                      body = (IF key_type = "private" THEN PrivateBody(k)
                              ELSE PublicBody(k)) }
    IN IF wellformed /\ keys # {} THEN Ok(CHOOSE k \in keys : TRUE)
       ELSE Err("Crypto")

\* one key argument of RsaCryptoProvider::new: None stays None, Some is
\* formatted and parsed
KeyArgument(key, key_type) ==
    IF ~key.some THEN Ok(NoKey) ELSE from_pem(format_rsa_key(key.v, key_type), key_type)

\* RsaCryptoProvider::new
new(private_key, public_key, sign_private_key) ==
    LET private == KeyArgument(private_key, "private")
        public  == KeyArgument(public_key, "public")
        signing == KeyArgument(sign_private_key, "private")
    IN IF ~private.ok THEN private
       ELSE IF ~public.ok THEN public
       ELSE IF ~signing.ok THEN signing
       ELSE Ok(Provider(private.val, public.val, signing.val))

\* ------------------------------------------------------------------------
\* Key texts: inputs and actions
\* ------------------------------------------------------------------------
Begin(key_type) == IF key_type = "private" THEN BeginPrivateKey ELSE BeginPublicKey

End(key_type) == IF key_type = "private" THEN EndPrivateKey ELSE EndPublicKey

\* the lines of a body joined by the end-of-line `eol`
RECURSIVE Wrapped(_, _)
Wrapped(body, eol) ==
    IF Len(body) <= LineWidth THEN body
    ELSE SubSeq(body, 1, LineWidth) \o eol
         \o Wrapped(SubSeq(body, LineWidth + 1, Len(body)), eol)

\* (c) raw base64 with no header or footer
RawForm(body) == body

\* (b) PEM with header and footer on one line
SingleLineForm(body, class) == <<Begin(class)>> \o body \o <<End(class)>>

\* (a) PEM with header, footer and lines of 64 characters ended by `eol`
WrappedForm(body, class, eol) ==
    <<Begin(class)>> \o eol \o Wrapped(body, eol) \o eol \o <<End(class)>>

\* the texts a console hands out for a body
KeyTexts(body, class) ==
    { RawForm(body),
      <<ChSP>> \o SubSeq(body, 1, 2) \o <<ChCR, ChNL, ChTAB>>
          \o SubSeq(body, 3, Len(body)) \o <<ChNL>>,
      SubSeq(body, 1, 2) \o <<ChVT>> \o SubSeq(body, 3, Len(body)),
      SingleLineForm(body, class),
      SingleLineForm(body, class) \o <<ChNL>>,
      WrappedForm(body, class, <<ChNL>>),
      <<ChNL, ChSP>> \o WrappedForm(body, class, <<ChNL>>) \o <<ChNL>>,
      WrappedForm(body, class, <<ChCR, ChNL>>),
      <<Begin(class), ChNL>> \o Wrapped(body, <<ChNL>>),
      <<Begin(class), ChNL>> \o Wrapped(body, <<ChNL>>) \o <<ChNL>>
          \o <<IF class = "private" THEN EndPublicKey ELSE EndPrivateKey>>,
      <<IF class = "private" THEN BeginRsaPrivateKey ELSE BeginRsaPublicKey, ChNL>>
          \o Wrapped(body, <<ChNL>>)
          \o <<ChNL, IF class = "private" THEN EndRsaPrivateKey ELSE EndRsaPublicKey>> }

Bodies(class) ==
    IF class = "private"
    THEN { PrivateBody(KeyA), PrivateBody(KeyC), Body(3, 1) }
    ELSE { PublicBody(KeyA), PublicBody(KeyC), Body(3, 1) }

FormatInputs ==
    { [key |-> t, key_type |-> kt] :
        kt \in {"private", "public"},
        t \in UNION { UNION { KeyTexts(b, c) : b \in Bodies(c) } :
                       c \in {"private", "public"} } }

FormsInputs ==
    [key   : {KeyA, KeyC},
     class : {"private", "public"},
     eol   : {<<ChNL>>, <<ChCR, ChNL>>}]

NewInputs ==
    [private_key :
        {None, Some(RawForm(PrivateBody(KeyA))),
         Some(WrappedForm(PrivateBody(KeyA), "private", <<ChNL>>)),
         Some(<<BeginPrivateKey, ChNL>> \o Wrapped(PrivateBody(KeyA), <<ChNL>>))},
     public_key :
        {None, Some(SingleLineForm(PublicBody(KeyA), "public")),
         Some(RawForm(Body(3, 1)))},
     sign_private_key :
        {None, Some(RawForm(PrivateBody(KeyC)))}]

KeysInit ==
    /\ \/ op = "new_format" /\ req \in FormatInputs
       \/ op = "new_forms" /\ req \in FormsInputs
       \/ op = "new_provider" /\ req \in NewInputs
    /\ api = Idle
    /\ net = Idle
    /\ call = Idle
    /\ validated = Idle
    /\ provider = Idle
    /\ data = <<>>
    /\ text = <<>>
    /\ result = Ok(<<>>)

\* Self::format_rsa_key(key, key_type)
FormatRsaKey ==
    /\ op = "new_format"
    /\ op' = "format"
    /\ text' = format_rsa_key(req.key, req.key_type)
    /\ UNCHANGED <<api, req, net, call, validated, provider, data, result>>

\* the body of one key normalized and parsed in its three forms
NormalizeForms ==
    LET body == IF req.class = "private" THEN PrivateBody(req.key)
                ELSE PublicBody(req.key)
        forms == [raw     |-> RawForm(body),
                  single  |-> SingleLineForm(body, req.class),
                  wrapped |-> WrappedForm(body, req.class, req.eol)]
    IN /\ op = "new_forms"
       /\ op' = "forms"
       /\ call' = [f \in DOMAIN forms |-> format_rsa_key(forms[f], req.class)]
       /\ result' = [f \in DOMAIN forms |->
                        from_pem(format_rsa_key(forms[f], req.class), req.class)]
       /\ UNCHANGED <<api, req, net, validated, provider, data, text>>

\* RsaCryptoProvider::new(private_key, public_key, sign_private_key)
New ==
    /\ op = "new_provider"
    /\ op' = "provider"
    /\ result' = new(req.private_key, req.public_key, req.sign_private_key)
    /\ UNCHANGED <<api, req, net, call, validated, provider, data, text>>

KeysNext ==
    \/ FormatRsaKey
    \/ NormalizeForms
    \/ New

SpecKeys == KeysInit /\ [][KeysNext]_vars

\* ------------------------------------------------------------------------
\* Claims about key texts and construction
\* ------------------------------------------------------------------------
\* the text holds the header and the footer of the requested key class
HasPair(key, key_type) ==
    IF key_type = "private"
    THEN \/ contains(key, BeginPrivateKey) /\ contains(key, EndPrivateKey)
         \/ contains(key, BeginRsaPrivateKey) /\ contains(key, EndRsaPrivateKey)
    ELSE \/ contains(key, BeginPublicKey) /\ contains(key, EndPublicKey)
         \/ contains(key, BeginRsaPublicKey) /\ contains(key, EndRsaPublicKey)

\* the text without any header, footer or whitespace
PureBase64(key) == SelectSeq(key, LAMBDA c : c \notin headers /\ ~IsWhitespace(c))

\* C12 (as claimed): format_rsa_key returns the trimmed input unmodified
\* exactly when it holds the header/footer pair of the requested class and
\* a newline; otherwise it returns the requested class's header, the input
\* without headers, footers and whitespace in lines of 64, and the footer.
C12_NormalizationCases ==
    op = "format" =>
        LET key == trim(req.key)
        IN IF HasPair(key, req.key_type) /\ contains(key, ChNL)
           THEN text = key
           ELSE text = WrappedForm(PureBase64(key), req.key_type, <<ChNL>>)

\* C13 (as claimed): raw base64, single-line PEM and wrapped PEM of one key
\* normalize to the same PEM text and construct the same key.
C13_ThreeFormsSameText ==
    op = "forms" =>
        /\ call["raw"] = call["single"]
        /\ call["single"] = call["wrapped"]
        /\ result["raw"] = result["single"]
        /\ result["single"] = result["wrapped"]

\* C13 (amended): raw base64 and single-line PEM normalize to the same PEM
\* text, lines of 64 characters between the class's header and footer; a
\* wrapped PEM is returned as given, which is that same text when its lines
\* end in "\n" and differs from it in the line ends when they end in
\* "\r\n"; all three construct the same key, private or public.
C13_ThreeFormsSameKey ==
    op = "forms" =>
        LET body == IF req.class = "private" THEN PrivateBody(req.key)
                    ELSE PublicBody(req.key)
        IN /\ call["raw"] = WrappedForm(body, req.class, <<ChNL>>)
           /\ call["single"] = call["raw"]
           /\ call["wrapped"] = WrappedForm(body, req.class, req.eol)
           /\ DropCR(call["wrapped"]) = call["raw"]
           /\ \A f \in {"raw", "single", "wrapped"} : result[f] = Ok(req.key)

\* C13 witness: a body of more than one line given wrapped with "\r\n"
\* line ends constructs the key of its raw form from a different text.
C13_Witness ==
    /\ op = "forms"
    /\ req.eol = <<ChCR, ChNL>>
    /\ contains(call["raw"], ChNL)
    /\ call["wrapped"] # call["raw"]
    /\ result["wrapped"] = result["raw"]
    /\ result["raw"].ok

\* C19 (as claimed): a provider that was constructed holds at least one
\* key; construction without any key fails.
C19_AtLeastOneKey ==
    (op = "provider" /\ result.ok) =>
        \/ IsSome(result.val.private_key)
        \/ IsSome(result.val.public_key)
        \/ IsSome(result.val.sign_private_key)

\* the call took the rewriting path of format_rsa_key
Rewritten(key, key_type) ==
    ~(/\ \/ key_type = "private"
            /\ (contains(key, BeginPrivateKey) \/ contains(key, BeginRsaPrivateKey))
         \/ key_type = "public"
            /\ (contains(key, BeginPublicKey) \/ contains(key, BeginRsaPublicKey))
      /\ contains(key, ChNL))

\* C24 (as claimed): when normalization rewrites a key, the body of the
\* result without its line breaks is the input without header and footer
\* markers and without whitespace, in the same order, nothing dropped,
\* duplicated or reordered; every body line has 64 characters except
\* possibly the last; the result begins with the BEGIN line of the
\* requested class and ends with its END line.
C24_RewrapKeepsBody ==
    (op = "format" /\ Rewritten(trim(req.key), req.key_type)) =>
        LET lines == Lines(text)
            n     == Len(lines)
        IN /\ n >= 3
           /\ lines[1] = <<Begin(req.key_type)>>
           /\ lines[n] = <<End(req.key_type)>>
           /\ Concat(SubSeq(lines, 2, n - 1)) = PureBase64(trim(req.key))
           /\ \A i \in 2 .. n - 2 : Len(lines[i]) = LineWidth
           /\ Len(lines[n - 1]) <= LineWidth

\* ------------------------------------------------------------------------
\* Concurrent pipeline calls, step by step
\* ------------------------------------------------------------------------
\* the callers that share one api object and its provider
Calls == {1, 2}

StepOrder == <<"Build", "Encrypt", "Transmit", "Receive", "Decrypt">>

\* the answers a call can get: no answer, a refusal in clear, the
\* encrypted result, a body that is no JSON
StepNets == SignNets \cup { [fail |-> FALSE, body |-> PlainText(InnerDummy)] }

\* the locals of one execute_request call: where it stands, the steps it
\* has run, and the values the steps have bound
Frame(pc, steps, raw_json, encrypted_data, sent, response, decrypt_calls, outcome) ==
    [pc |-> pc, steps |-> steps, raw_json |-> raw_json,
     encrypted_data |-> encrypted_data, sent |-> sent, response |-> response,
     decrypt_calls |-> decrypt_calls, result |-> outcome]

StepsInit ==
    /\ api \in Apis
    /\ provider = api.crypto_provider
    /\ req \in [Calls -> Requests]
    /\ net \in [Calls -> StepNets]
    /\ call = [c \in Calls |-> Frame("Build", <<>>, Idle, Idle, <<>>, Idle, <<>>, Idle)]
    /\ op = "start"
    /\ validated = Idle
    /\ data = <<>>
    /\ text = <<>>
    /\ result = Ok(<<>>)

Ran(f, step) == \E i \in 1 .. Len(f.steps) : f.steps[i] = step

\* step 1: let raw_json = self.build_request_args_json(data)
StepBuild(c) ==
    LET f == call[c]
        raw_json == IF api.kind = "mpc"
                    THEN mpc_build_request_args_json(api, req[c].data, req[c].now)
                    ELSE waas_build_request_args_json(api, req[c].data, req[c].now)
    IN /\ f.pc = "Build"
       /\ call' = [call EXCEPT ![c] =
              [f EXCEPT !.pc = "Encrypt", !.steps = Append(f.steps, "Build"),
                        !.raw_json = raw_json]]
       /\ op' = "Build"
       /\ UNCHANGED <<api, provider, req, net, validated, data, text, result>>

\* step 2 reading the body from a buffer that the calls share
StepEncryptSharedBuffer(c) ==
    LET f == call[c]
        others == { o \in Calls \ {c} : Ran(call[o], "Build") }
        buffer == IF others = {} THEN f.raw_json
                  ELSE call[CHOOSE o \in others : TRUE].raw_json
        encrypted_data == provider_encrypt(provider, buffer)
    IN /\ f.pc = "Encrypt"
       /\ call' = [call EXCEPT ![c] =
              [f EXCEPT !.pc = IF encrypted_data.ok THEN "Transmit" ELSE "Done",
                        !.steps = Append(f.steps, "Encrypt"),
                        !.encrypted_data = encrypted_data,
                        !.result = IF encrypted_data.ok THEN f.result
                                   ELSE Err("Crypto")]]
       /\ op' = "Encrypt"
       /\ UNCHANGED <<api, provider, req, net, validated, data, text, result>>

\* step 2: self.crypto_provider.encrypt_with_private_key(&raw_json)?
StepEncrypt(c) ==
    LET f == call[c]
        encrypted_data == provider_encrypt(provider, f.raw_json)
    IN /\ f.pc = "Encrypt"
       /\ call' = [call EXCEPT ![c] =
              [f EXCEPT !.pc = IF encrypted_data.ok THEN "Transmit" ELSE "Done",
                        !.steps = Append(f.steps, "Encrypt"),
                        !.encrypted_data = encrypted_data,
                        !.result = IF encrypted_data.ok THEN f.result
                                   ELSE Err("Crypto")]]
       /\ op' = "Encrypt"
       /\ UNCHANGED <<api, provider, req, net, validated, data, text, result>>

\* step 3 sending the request once more after a failure
StepTransmitRetrying(c) ==
    LET f == call[c]
        request == WireRequest(api, req[c].method, req[c].path, f.encrypted_data.val)
        again   == net[c].fail /\ f.sent = <<>>
    IN /\ f.pc = "Transmit"
       /\ call' = [call EXCEPT ![c] =
              [f EXCEPT !.pc = IF again THEN "Transmit"
                               ELSE IF net[c].fail THEN "Done" ELSE "Receive",
                        !.steps = Append(f.steps, "Transmit"),
                        !.sent = Append(f.sent, request),
                        !.result = IF net[c].fail /\ ~again THEN Err("Network")
                                   ELSE f.result]]
       /\ op' = "Transmit"
       /\ UNCHANGED <<api, provider, req, net, validated, data, text, result>>

\* step 3: the request with app_id and data goes out through
\* self.http_client.get / post, whose failure ends the call
StepTransmit(c) ==
    LET f == call[c]
        request == WireRequest(api, req[c].method, req[c].path, f.encrypted_data.val)
    IN /\ f.pc = "Transmit"
       /\ call' = [call EXCEPT ![c] =
              [f EXCEPT !.pc = IF net[c].fail THEN "Done" ELSE "Receive",
                        !.steps = Append(f.steps, "Transmit"),
                        !.sent = Append(f.sent, request),
                        !.result = IF net[c].fail THEN Err("Network") ELSE f.result]]
       /\ op' = "Transmit"
       /\ UNCHANGED <<api, provider, req, net, validated, data, text, result>>

\* the response body arrives: serde_json::from_str(&response_body)?
StepReceive(c) ==
    LET f == call[c]
        response == from_str(http_send(net[c]).val)
    IN /\ f.pc = "Receive"
       /\ call' = [call EXCEPT ![c] =
              [f EXCEPT !.pc = IF response.ok THEN "Decrypt" ELSE "Done",
                        !.steps = Append(f.steps, "Receive"),
                        !.response = response,
                        !.result = IF response.ok THEN f.result
                                   ELSE Err("Validation")]]
       /\ op' = "Receive"
       /\ UNCHANGED <<api, provider, req, net, validated, data, text, result>>

\* step 4: a string `data` is decrypted with the public key
StepDecrypt(c) ==
    LET f == call[c]
        outcome == IF api.kind = "mpc"
                   THEN mpc_decrypt_response(api, f.raw_json, f.sent[1], f.response.val)
                   ELSE waas_decrypt_response(api, f.raw_json, f.sent[1], f.response.val)
    IN /\ f.pc = "Decrypt"
       /\ call' = [call EXCEPT ![c] =
              [f EXCEPT !.pc = "Done",
                        !.steps = Append(f.steps, "Decrypt"),
                        !.decrypt_calls = outcome.decrypt_calls,
                        !.result = outcome.result]]
       /\ op' = "Decrypt"
       /\ UNCHANGED <<api, provider, req, net, validated, data, text, result>>

StepsNext ==
    \/ \E c \in Calls : StepBuild(c)
    \/ \E c \in Calls : StepEncrypt(c)
    \/ \E c \in Calls : StepTransmit(c)
    \/ \E c \in Calls : StepReceive(c)
    \/ \E c \in Calls : StepDecrypt(c)

SpecSteps == StepsInit /\ [][StepsNext]_vars

\* ------------------------------------------------------------------------
\* Claims about the steps of a call and about concurrent calls
\* ------------------------------------------------------------------------
\* C17: every execute_request call runs Build, Encrypt, Transmit, Receive,
\* Decrypt in this order and each at most once; a request is sent only
\* after encryption succeeded and carries its ciphertext; at most one
\* request is sent; decryption runs only after a response was received and
\* parsed; a failure of Encrypt, Transmit or Receive ends the call with
\* its error and no later step runs (Build cannot fail).
C17_StepsInOrderOnce ==
    op # "start" =>
        \A c \in Calls :
            LET f == call[c]
            IN /\ Len(f.steps) <= Len(StepOrder)
               /\ f.steps = SubSeq(StepOrder, 1, Len(f.steps))
               /\ Len(f.sent) <= 1
               /\ f.sent # <<>> =>
                      /\ Ran(f, "Encrypt")
                      /\ f.encrypted_data.ok
                      /\ f.sent[1].form.data = f.encrypted_data.val
               /\ (Ran(f, "Decrypt") \/ f.decrypt_calls # <<>>) =>
                      /\ Ran(f, "Receive")
                      /\ f.response.ok
                      /\ f.sent # <<>>
               /\ (Ran(f, "Encrypt") /\ ~f.encrypted_data.ok) =>
                      /\ f.pc = "Done" /\ f.result = Err("Crypto")
                      /\ f.steps = <<"Build", "Encrypt">>
               /\ (Ran(f, "Transmit") /\ net[c].fail) =>
                      /\ f.pc = "Done" /\ f.result = Err("Network")
                      /\ f.steps = <<"Build", "Encrypt", "Transmit">>
               /\ (Ran(f, "Receive") /\ ~f.response.ok) =>
                      /\ f.pc = "Done" /\ f.result = Err("Validation")
                      /\ f.steps = <<"Build", "Encrypt", "Transmit", "Receive">>
                      /\ f.decrypt_calls = <<>>

\* C17 witness: one call ran all five steps and decrypted its response,
\* the other was ended by the failure of its transmission.
C17_Witness ==
    /\ op # "start"
    /\ call[1].pc = "Done"
    /\ call[1].steps = StepOrder
    /\ call[1].decrypt_calls # <<>>
    /\ call[1].result.ok
    /\ call[2].pc = "Done"
    /\ call[2].steps = <<"Build", "Encrypt", "Transmit">>
    /\ call[2].result = Err("Network")

\* what the call of c does when it runs alone
Alone(c) ==
    execute_request(api, req[c].method, req[c].path, req[c].data, req[c].now, net[c])

\* every value a call has bound is the one it binds when run alone
AsAlone(c) ==
    LET f == call[c]
    IN /\ Ran(f, "Build") => f.raw_json = Alone(c).raw_json
       /\ (Ran(f, "Encrypt") /\ f.encrypted_data.ok) =>
              /\ Alone(c).sent # <<>>
              /\ f.encrypted_data.val = Alone(c).sent[1].form.data
       /\ (Ran(f, "Encrypt") /\ ~f.encrypted_data.ok) => Alone(c).sent = <<>>
       /\ f.pc = "Done" =>
              /\ f.sent = Alone(c).sent
              /\ f.decrypt_calls = Alone(c).decrypt_calls
              /\ f.result = Alone(c).result

\* C18: with several calls in flight on one shared provider, no step
\* changes the provider's keys (or the api object), and under every
\* interleaving each call's request body, ciphertext and result are the
\* ones it produces when run alone.
C18_ConcurrentCallsIndependent ==
    /\ [][provider' = provider /\ api' = api]_vars
    /\ [](op # "start" => (provider = api.crypto_provider /\ \A c \in Calls : AsAlone(c)))

\* C18 witness: call 1 ran from start to end while call 2, with another
\* body and another ciphertext, stood between its encryption and its
\* transmission; call 1 returned what it returns alone.
C18_Witness ==
    /\ op # "start"
    /\ call[1].pc = "Done"
    /\ call[1].steps = StepOrder
    /\ call[1].result = Alone(1).result
    /\ call[2].pc = "Transmit"
    /\ call[2].raw_json # call[1].raw_json
    /\ call[2].encrypted_data.val # call[1].encrypted_data.val

\* ------------------------------------------------------------------------
\* Received ciphertext: inputs and actions
\* ------------------------------------------------------------------------
\* what the holder of `key` sends for the k-byte block `block`
PeerBlock(key, block) ==
    LET sealed == to_bytes_be(modpow(from_bytes_be(block), key.d, key.n))
    IN Repeat(0, size(key) - Len(sealed)) \o sealed

\* bytes 2 .. k-1 of a block: well-formed padding around "\1\2", no 0x00
\* at all, a 0x00 at index 2, zeros and then data, zeros only, two 0x00,
\* a 0x00 as the last byte, a chunk that is no UTF-8
BlockRests(k) ==
    { Repeat(FF, k - 5) \o <<0, 1, 2>>,
      Repeat(1, k - 2),
      <<0>> \o Repeat(2, k - 3),
      Repeat(0, k - 4) \o <<1, 2>>,
      Repeat(0, k - 2),
      Repeat(FF, k - 6) \o <<0, 1, 0, 2>>,
      Repeat(FF, k - 3) \o <<0>>,
      Repeat(FF, k - 5) \o <<0, FF, 1>> }

\* the blocks below the modulus, whatever their first two bytes
Blocks(key) ==
    { b \in { <<b0, b1>> \o rest : b0 \in Byte, b1 \in Byte,
                                   rest \in BlockRests(size(key)) } :
        from_bytes_be(b) < key.n }

\* the blocks with the padding of encrypt
PaddedBlocks(key) ==
    { <<0, 1>> \o Repeat(FF, size(key) - 3 - Len(chunk)) \o <<0>> \o chunk :
        chunk \in { <<1>>, <<2, 1>> } }

\* the byte strings that arrive: one window, two windows, a window and a
\* short one, no window, short windows
ReceivedBytes(key) ==
    { PeerBlock(key, b) : b \in Blocks(key) }
    \cup { PeerBlock(key, b1) \o PeerBlock(key, b2) :
               b1 \in PaddedBlocks(key), b2 \in PaddedBlocks(key) }
    \cup { PeerBlock(key, b) \o <<1, 2>> : b \in PaddedBlocks(key) }
    \cup { <<>>, <<0>>, <<2, 1, FF>> }

\* the text of the bytes with '=' up to a multiple of 4
UrlSafePadded(bytes) ==
    LET encoded == UrlSafeNoPadEncode(bytes)
    IN encoded \o Repeat(PadChar, (4 - (Len(encoded) % 4)) % 4)

\* the texts that arrive for the bytes: without padding, with padding,
\* with a character of no alphabet, the text of more bytes and a sextet
ReceivedTexts(bytes) ==
    { UrlSafeNoPadEncode(bytes),
      UrlSafePadded(bytes),
      UrlSafeNoPadEncode(bytes) \o <<BadChar>>,
      UrlSafeNoPadEncode(bytes \o <<1, 2, 3>>) \o <<5>> }

DecryptKeys == {KeyA, KeyB, KeyC}

DecryptInit ==
    /\ req \in DecryptKeys
    /\ provider \in { Provider(req, req, NoKey), Provider(req, NoKey, NoKey) }
    /\ data \in ReceivedBytes(req)
    /\ text \in ReceivedTexts(data)
    /\ op = "received"
    /\ result = Ok(<<>>)
    /\ api = Idle
    /\ net = Idle
    /\ call = Idle
    /\ validated = Idle

\* provider.raw_decrypt_with_public_key(bytes)
RawDecrypt ==
    /\ op = "received"
    /\ op' = "raw_decrypt"
    /\ result' = raw_decrypt_with_public_key(provider, data)
    /\ UNCHANGED <<provider, data, text, pipelineVars>>

\* provider.decrypt_with_public_key(text)
DecryptText ==
    /\ op = "received"
    /\ op' = "decrypt_text"
    /\ result' = decrypt_with_public_key(provider, text)
    /\ UNCHANGED <<provider, data, text, pipelineVars>>

DecryptNext ==
    \/ RawDecrypt
    \/ DecryptText

SpecDecrypt == DecryptInit /\ [][DecryptNext]_vars

\* ------------------------------------------------------------------------
\* Claims about received ciphertext
\* ------------------------------------------------------------------------
\* the windows of k bytes of the received bytes, the last may be shorter
Windows(bytes, k) ==
    [i \in 1 .. ((Len(bytes) + k - 1) \div k) |->
        SubSeq(bytes, (i - 1) * k + 1, Min(i * k, Len(bytes)))]

\* c^e mod n of a window, left-padded with zeros to k bytes
Opened(window, key) ==
    LET opened == to_bytes_be(modpow(from_bytes_be(window), key.e, key.n))
    IN Repeat(0, size(key) - Len(opened)) \o opened

\* the plaintext of an opened window when the padding is stripped only
\* under 0x00, 0x01 or 0x00, 0x02
StrippedUnderZeroHead(block) ==
    IF block[1] = 0 /\ block[2] \in {1, 2} /\ FindZero(block, 3) # 0
    THEN SubSeq(block, FindZero(block, 3) + 1, Len(block))
    ELSE SkipZeros(block)

\* C21 (as claimed): of every window, opened and left-padded to k bytes,
\* the padding is stripped at the first 0x00 from index 2 on only if byte 0
\* is 0x00 and byte 1 is 0x01 or 0x02; in every other case the plaintext is
\* the block without its leading zeros; no window makes the call fail.
C21_StripOnlyUnderZeroHead ==
    (op = "raw_decrypt" /\ IsSome(provider.public_key)) =>
        LET blocks == Windows(data, size(provider.public_key))
        IN /\ result.ok
           /\ result.val = Concat([i \in 1 .. Len(blocks) |->
                  StrippedUnderZeroHead(Opened(blocks[i], provider.public_key))])

\* the text without its trailing '='
Unpadded(encoded) == SubSeq(encoded, 1, Len(encoded) - TrailingPads(encoded))

\* the text is URL-safe base64 without padding, or is so once '=' is
\* added up to a multiple of 4
IsUrlSafeBase64(encoded) ==
    \/ UrlSafeNoPadDecode(encoded).ok
    \/ UrlSafeDecode(encoded \o Repeat(PadChar, (4 - (Len(encoded) % 4)) % 4)).ok

\* the bytes of such a text
Base64Bytes(encoded) ==
    IF UrlSafeNoPadDecode(encoded).ok THEN UrlSafeNoPadDecode(encoded).val
    ELSE UrlSafeDecode(encoded \o Repeat(PadChar, (4 - (Len(encoded) % 4)) % 4)).val

\* C23: decrypt_with_public_key returns an error in exactly three cases:
\* no public key, a text that is no URL-safe base64 without padding nor
\* after '=' is added up to a multiple of 4, decrypted bytes that are no
\* UTF-8; a ciphertext with and without its trailing '=' decrypts to the
\* same result.
C23_DecryptErrorCases ==
    op = "decrypt_text" =>
        /\ ~result.ok <=>
               \/ ~IsSome(provider.public_key)
               \/ ~IsUrlSafeBase64(text)
               \/ ~IsUtf8(raw_decrypt_with_public_key(provider, Base64Bytes(text)).val)
        /\ ~result.ok => result = Err("Crypto")
        /\ IsUrlSafeBase64(text) =>
               /\ decrypt_with_public_key(provider, Unpadded(text)) = result
               /\ decrypt_with_public_key(provider, UrlSafePadded(Base64Bytes(text))) = result

\* C23 witness: a ciphertext that came with '=' padding was decrypted to
\* the non-empty plaintext of its unpadded form.
C23_Witness ==
    /\ op = "decrypt_text"
    /\ TrailingPads(text) > 0
    /\ result.ok
    /\ result.val # <<>>
    /\ result = decrypt_with_public_key(provider, Unpadded(text))

\* ------------------------------------------------------------------------
\* Claims about the layout of the blocks
\* ------------------------------------------------------------------------
\* the chunks of at most k - 11 bytes of the plaintext, in order
Chunks(bytes, k) == Windows(bytes, k - PadOverhead)

\* C22: every chunk of L bytes, 1 <= L <= k - 11, is encrypted from the
\* block 0x00, 0x01, k - L - 3 bytes 0xFF (8 or more), 0x00, chunk, of k
\* bytes; m^d mod n in big-endian bytes is left-padded with zeros to k
\* bytes, and the blocks are concatenated in the order of the chunks.
C22_BlockLayout ==
    (op = "encrypt" /\ result.ok) =>
        LET key    == provider.private_key
            k      == size(key)
            chunks == Chunks(data, k)
            bytes  == UrlSafeNoPadDecode(text).val
            sealed == Windows(bytes, k)
        IN /\ Len(sealed) = Len(chunks)
           /\ \A i \in 1 .. Len(chunks) :
                  LET L     == Len(chunks[i])
                      block == <<0, 1>> \o Repeat(FF, k - L - 3) \o <<0>> \o chunks[i]
                      power == to_bytes_be(modpow(from_bytes_be(block), key.d, key.n))
                  IN /\ 1 <= L /\ L <= k - 11
                     /\ k - L - 3 >= 8
                     /\ Len(block) = k
                     /\ Len(sealed[i]) = k
                     /\ sealed[i] = Repeat(0, k - Len(power)) \o power
                     /\ Opened(sealed[i], key) = block

\* C22 witness: a plaintext of a full and a shorter chunk was encrypted,
\* and the first block needed zeros on its left.
C22_Witness ==
    /\ op = "encrypt"
    /\ result.ok
    /\ Len(data) = size(provider.private_key) - PadOverhead + 1
    /\ Len(data) > 2
    /\ UrlSafeNoPadDecode(text).val[1] = 0
    /\ Len(UrlSafeNoPadDecode(text).val) = 2 * size(provider.private_key)

\* ------------------------------------------------------------------------
\* The encrypt and decrypt loops, one iteration at a time
\* ------------------------------------------------------------------------
\* the block size of a loop that slices one byte per iteration
EncryptBlockSizeOne(input_len, offset, key_size) ==
    Min(1, input_len - offset)

\* std::cmp::min(max_block, input_len - offset) with max_block = key_size - 11
EncryptBlockSize(input_len, offset, key_size) ==
    Min(key_size - PadOverhead, input_len - offset)

\* std::cmp::min(key_size, input_len - offset)
DecryptBlockSize(input_len, offset, key_size) ==
    Min(key_size, input_len - offset)

\* the locals of a loop: offset, the chunks pushed so far, and, to observe
\* the loop, the iterations made and how often each input byte was sliced
LoopFrame(offset, chunks, iterations, consumed) ==
    [offset |-> offset, chunks |-> chunks,
     iterations |-> iterations, consumed |-> consumed]

\* the inputs of the loops: short strings, one block, two blocks, a block
\* and a short window
LoopBytes(key) ==
    Strings
    \cup { PeerBlock(key, b) : b \in PaddedBlocks(key) }
    \cup { PeerBlock(key, b1) \o PeerBlock(key, b2) :
               b1 \in PaddedBlocks(key), b2 \in PaddedBlocks(key) }
    \cup { PeerBlock(key, b) \o <<1, 2>> : b \in PaddedBlocks(key) }

LoopsInit ==
    /\ req \in DecryptKeys
    /\ provider \in { Provider(req, req, NoKey), Provider(NoKey, NoKey, NoKey) }
    /\ data \in LoopBytes(req)
    /\ text = <<>>
    /\ op = "input"
    /\ result = Ok(<<>>)
    /\ api = Idle
    /\ net = Idle
    /\ call = LoopFrame(0, <<>>, 0, <<>>)
    /\ validated = Idle

\* raw_encrypt_with_private_key up to the loop: the key, offset = 0
RawEncryptEnter ==
    /\ op = "input"
    /\ IF IsSome(provider.private_key)
       THEN /\ op' = "encrypt_loop"
            /\ call' = LoopFrame(0, <<>>, 0, [i \in 1 .. Len(data) |-> 0])
            /\ UNCHANGED result
       ELSE /\ op' = "encrypted"
            /\ result' = Err("Crypto")
            /\ UNCHANGED call
    /\ UNCHANGED <<provider, data, text, api, req, net, validated>>

\* one iteration of `while offset < input_len` in raw_encrypt
EncryptIteration ==
    /\ op = "encrypt_loop"
    /\ call.offset < Len(data)
    /\ LET key        == provider.private_key
           block_size == EncryptBlockSize(Len(data), call.offset, size(key))
           chunk      == SubSeq(data, call.offset + 1, call.offset + block_size)
       IN call' = LoopFrame(
              call.offset + block_size,
              Append(call.chunks, EncryptBlock(chunk, key)),
              call.iterations + 1,
              [i \in 1 .. Len(data) |->
                  IF i > call.offset /\ i <= call.offset + block_size
                  THEN call.consumed[i] + 1 ELSE call.consumed[i]])
    /\ UNCHANGED <<provider, op, data, text, result, api, req, net, validated>>

\* the loop condition fails: Ok(encrypted_chunks.concat())
EncryptReturn ==
    /\ op = "encrypt_loop"
    /\ ~(call.offset < Len(data))
    /\ op' = "encrypted"
    /\ result' = Ok(Concat(call.chunks))
    /\ UNCHANGED <<provider, data, text, pipelineVars>>

\* raw_decrypt_with_public_key up to the loop: the key, offset = 0
RawDecryptEnter ==
    /\ op = "input"
    /\ IF IsSome(provider.public_key)
       THEN /\ op' = "decrypt_loop"
            /\ call' = LoopFrame(0, <<>>, 0, [i \in 1 .. Len(data) |-> 0])
            /\ UNCHANGED result
       ELSE /\ op' = "decrypted"
            /\ result' = Err("Crypto")
            /\ UNCHANGED call
    /\ UNCHANGED <<provider, data, text, api, req, net, validated>>

\* one iteration of `while offset < input_len` in raw_decrypt
DecryptIteration ==
    /\ op = "decrypt_loop"
    /\ call.offset < Len(data)
    /\ LET key        == provider.public_key
           block_size == DecryptBlockSize(Len(data), call.offset, size(key))
           chunk      == SubSeq(data, call.offset + 1, call.offset + block_size)
       IN call' = LoopFrame(
              call.offset + block_size,
              Append(call.chunks, DecryptBlock(chunk, key)),
              call.iterations + 1,
              [i \in 1 .. Len(data) |->
                  IF i > call.offset /\ i <= call.offset + block_size
                  THEN call.consumed[i] + 1 ELSE call.consumed[i]])
    /\ UNCHANGED <<provider, op, data, text, result, api, req, net, validated>>

\* the loop condition fails: Ok(decrypted_chunks.concat())
DecryptReturn ==
    /\ op = "decrypt_loop"
    /\ ~(call.offset < Len(data))
    /\ op' = "decrypted"
    /\ result' = Ok(Concat(call.chunks))
    /\ UNCHANGED <<provider, data, text, pipelineVars>>

LoopsNext ==
    \/ RawEncryptEnter
    \/ EncryptIteration
    \/ EncryptReturn
    \/ RawDecryptEnter
    \/ DecryptIteration
    \/ DecryptReturn

SpecLoops == LoopsInit /\ [][LoopsNext]_vars

\* ------------------------------------------------------------------------
\* Claims about the termination of the loops
\* ------------------------------------------------------------------------
Ceil(a, b) == (a + b - 1) \div b

InLoop == op \in {"encrypt_loop", "decrypt_loop"}

Completed == op \in {"encrypted", "decrypted"}

\* the largest step of the running loop: key_size - 11 or key_size
MaxStep ==
    IF op \in {"encrypt_loop", "encrypted"}
    THEN size(provider.private_key) - PadOverhead
    ELSE size(provider.public_key)

\* C26: raw encrypt and raw decrypt run to completion: with k > 11 every
\* iteration of the encrypt loop advances the offset by 1 .. k - 11 bytes
\* and every iteration of the decrypt loop by 1 .. k bytes, the offset
\* never exceeds the input length, so that no loop makes more than
\* ceil(L / (k - 11)) and ceil(N / k) iterations; a loop that stands at
\* the input length returns, and it returns after exactly that many
\* iterations with every input byte consumed exactly once.
C26_LoopsRunToCompletion ==
    /\ [][(InLoop /\ op' = op) =>
             /\ size(req) > PadOverhead
             /\ call'.offset - call.offset \in 1 .. MaxStep
             /\ call'.iterations = call.iterations + 1]_vars
    /\ [][(InLoop /\ op' # op) => (call.offset = Len(data) /\ Completed')]_vars
    /\ [](InLoop =>
             /\ call.offset <= Len(data)
             /\ call.iterations <= Ceil(Len(data), MaxStep)
             /\ \A i \in 1 .. Len(data) :
                    call.consumed[i] = IF i <= call.offset THEN 1 ELSE 0)
    /\ []((Completed /\ result.ok) =>
             /\ call.offset = Len(data)
             /\ call.iterations = Ceil(Len(data), MaxStep)
             /\ \A i \in 1 .. Len(data) : call.consumed[i] = 1
             /\ op = "encrypted" =>
                    result = raw_encrypt_with_private_key(provider, data)
             /\ op = "decrypted" =>
                    result = raw_decrypt_with_public_key(provider, data))

\* C26 witness: an encrypt loop over more than one key size of input ended
\* after more than two iterations, the last one on a shorter chunk.
C26_Witness ==
    /\ op = "encrypted"
    /\ result.ok
    /\ Len(data) > size(provider.private_key)
    /\ call.iterations > 2
    /\ Len(data) % (size(provider.private_key) - PadOverhead) # 0
    /\ call.offset = Len(data)

============================================================================
